---- MODULE Spec2Model ----
(***************************************************************************)
(* A model of schlep's VFS router (VfsSet), LocalDir backend handle tables *)
(* and the SFTP session handlers.                                          *)
(*                                                                         *)
(* Paths are sequences of components as std::path::Components yields them: *)
(* "/" is RootDir, "." is CurDir, ".." is ParentDir, anything else is a    *)
(* Normal component.  Strings that are sliced byte-wise (handle wire       *)
(* forms) are sequences of one-character strings.                          *)
(***************************************************************************)
EXTENDS Integers, Sequences, FiniteSets, TLC

\* ------------------------------------------------------------------ bounds

\* Longest client-supplied path, in '/'-separated segments.
MaxSegs == 2
\* Longest second operand of RENAME / SYMLINK, in segments.
MaxSegs2 == 1
\* Longest absolute query handed directly to resolve_path, in components
\* after the root.
MaxQuery == 3

\* ------------------------------------------------------------------- paths

Names == {"a", "b"}
Segs == Names \cup {".", ".."}

\* A client-supplied path string: a leading '/' or not, then segments.
RawPathsUpTo(n) ==
    [abs : BOOLEAN, segs : UNION {[1..k -> Segs] : k \in 0..n}]

NoPath == [some |-> FALSE, path |-> <<>>]
SomePath(p) == [some |-> TRUE, path |-> p]

DropCurDir(segs) == SelectSeq(segs, LAMBDA c : c # ".")

\* std::path::Path::components: "." survives only as the first component
\* of a relative path.
Components(raw) ==
    IF raw.abs THEN <<"/">> \o DropCurDir(raw.segs)
    ELSE IF raw.segs # <<>> /\ Head(raw.segs) = "."
         THEN <<".">> \o DropCurDir(Tail(raw.segs))
         ELSE DropCurDir(raw.segs)

IsAbsolute(p) == p # <<>> /\ p[1] = "/"

\* Path::parent: none for the root and for the empty path.
Parent(p) ==
    IF p = <<>> \/ p[Len(p)] = "/" THEN NoPath
    ELSE SomePath(SubSeq(p, 1, Len(p) - 1))

\* Path::starts_with: component-wise prefix.
StartsWith(path, prefix) ==
    /\ Len(prefix) <= Len(path)
    /\ SubSeq(path, 1, Len(prefix)) = prefix

\* The loop below with ".." pushed like an ordinary component.
AbsolutizeRestKeepParent(comps, tokens, first_is_root) ==
    tokens \o SelectSeq(comps, LAMBDA c : c # ".")

RECURSIVE AbsolutizeRest(_, _, _)
AbsolutizeRest(comps, tokens, first_is_root) ==
    IF comps = <<>> THEN tokens
    ELSE LET c == Head(comps) IN
         IF c = "." THEN AbsolutizeRest(Tail(comps), tokens, first_is_root)
         ELSE IF c = ".."
         THEN IF Len(tokens) > 0 /\ (Len(tokens) # 1 \/ ~first_is_root)
              THEN AbsolutizeRest(Tail(comps),
                                  SubSeq(tokens, 1, Len(tokens) - 1),
                                  first_is_root)
              ELSE AbsolutizeRest(Tail(comps), tokens, first_is_root)
         ELSE AbsolutizeRest(Tail(comps), tokens \o <<c>>, first_is_root)

\* path_absolutize::Absolutize::absolutize_from, as path_match calls it.
AbsolutizeFrom(comps, cwd) ==
    IF comps = <<>> THEN cwd
    ELSE LET first == Head(comps)
             tokens ==
                 CASE first = "/" -> <<"/">>
                   [] first = "." -> cwd
                   [] first = ".." ->
                        IF Parent(cwd).some THEN Parent(cwd).path
                        ELSE IF cwd = <<"/">> THEN <<"/">> ELSE <<>>
                   [] OTHER -> cwd \o <<first>>
             first_is_root ==
                 IF first \in {"/", ".", ".."} THEN IsAbsolute(tokens)
                 ELSE IsAbsolute(cwd)
         IN AbsolutizeRest(Tail(comps), tokens, first_is_root)

RECURSIVE DiffLoop(_, _, _)
DiffLoop(ita, itb, comps) ==
    IF ita = <<>> /\ itb = <<>> THEN SomePath(comps)
    ELSE IF itb = <<>> THEN SomePath(comps \o ita)
    ELSE IF ita = <<>> THEN DiffLoop(<<>>, Tail(itb), comps \o <<"..">>)
    ELSE IF comps = <<>> /\ Head(ita) = Head(itb)
         THEN DiffLoop(Tail(ita), Tail(itb), comps)
    ELSE IF Head(itb) = "."
         THEN DiffLoop(Tail(ita), Tail(itb), comps \o <<Head(ita)>>)
    ELSE IF Head(itb) = ".." THEN NoPath
    ELSE SomePath(comps \o [i \in 1..Len(itb) |-> ".."] \o ita)

\* pathdiff::diff_utf8_paths(path, base).
DiffPaths(path, base) ==
    IF IsAbsolute(path) # IsAbsolute(base)
    THEN IF IsAbsolute(path) THEN SomePath(path) ELSE NoPath
    ELSE DiffLoop(path, base, <<>>)

\* ------------------------------------------------------------------ router

VARIABLES
    vfs_map,            \* VfsSet.vfs_map: the mounted prefixes, one LocalDir each
    cwd_path,           \* SftpSession.cwd_path
    version,            \* SftpSession.version
    readdir_performed,  \* SftpSession.readdir_performed
    open_files,         \* LocalDir.open_files of each backend: vfs_handle -> file
    open_dirs,          \* LocalDir.open_dirs of each backend: vfs_handle -> directory
    salts,              \* how many salts rand::rng() has handed out
    files,              \* the regular files below each backend's root
    dirs,               \* the directories below each backend's root
    links,              \* the symlinks below each backend's root: path -> content
    contents,           \* the bytes of the regular files below each backend's root
    positions,          \* the file position of each file an open returned
    in_flight,          \* the writes handed to the blocking pool and not run yet
    promised,           \* the bytes of each file as the answers to OPEN and WRITE tell
    writes,             \* how many WRITEs have been answered Ok
    issued,             \* every handle an open returned: salt number -> handle
    closed,             \* the handles a close has removed
    resp,               \* the answer to the last request
    calls,              \* the backend operations the last request invoked
    allow_password,     \* Config.allow_password
    allow_publickey,    \* Config.allow_publickey
    directory,          \* what AuthClient::get_user finds for each user name
    methods,            \* SshSession.methods
    auth,               \* the answer to the last authentication request
    auth_calls,         \* the AuthClient methods the last authentication request called
    clients,            \* SshSession.clients: the channels in the table
    channels,           \* every channel the client opened: id -> open, taken or closed
    sent,               \* the channel messages the last SSH request sent
    handler,            \* what the last SSH request handler returned: Ok or Err
    redis_pool,         \* AuthClient.redis_pool is Some: a cache is configured
    ldap,               \* what a directory search finds for each user name
    cache,              \* the cache: key -> the record and its time to live
    held,               \* the pooled connections the caller of get_user holds
    pc,                 \* where the caller of get_user is, and for which user
    ops,                \* the pool and backend operations of the current get_user
    result,             \* what the last get_user returned
    inodes,             \* the times, mode and owner of the files a run looks at
    parked,             \* the SftpSession structs of the sessions that are not at work
    session,            \* which session the SftpSession at work belongs to
    input,              \* the arguments drawn for the calls of a run
    output              \* what the last direct call of a function returned

session_vars == <<version, readdir_performed, resp, calls>>
backend_vars == <<open_files, open_dirs, salts, issued, closed>>
fs_vars == <<files, dirs, links>>
io_vars == <<contents, positions, in_flight, promised, writes>>
auth_vars == <<allow_password, allow_publickey, directory, methods, auth, auth_calls>>
channel_vars == <<clients, channels, sent, handler>>
client_vars == <<redis_pool, ldap, cache, held, pc, ops, result>>
ssh_vars == <<auth_vars, channel_vars, client_vars>>
other_vars == <<inodes, parked, session>>
vars ==
    <<vfs_map, cwd_path, session_vars, backend_vars, fs_vars, io_vars, ssh_vars,
      other_vars, input, output>>

\* What get_user returned: Some(user), None, an error, or nothing when the
\* caller was cancelled.
Returned(kind, value) == [kind |-> kind, value |-> value]
NoResult == Returned("none", "")

\* The caller of get_user between two calls.
NotCalling == [at |-> "idle", username |-> ""]

\* No auth client is at work.
NoLookup ==
    /\ redis_pool = FALSE
    /\ ldap = <<>>
    /\ cache = <<>>
    /\ held = {}
    /\ pc = NotCalling
    /\ ops = <<>>
    /\ result = NoResult

\* No inode is looked at, and the session at work is the only one.
NoOthers ==
    /\ inodes = <<>>
    /\ parked = <<>>
    /\ session = 1

\* No channel has been opened.
NoChannels ==
    /\ clients = {}
    /\ channels = <<>>
    /\ sent = <<>>
    /\ handler = "none"

\* What an authentication request was answered: Accept, Reject with the
\* methods to go on with, Err when the handler returned an error, Panic
\* when it did not return; method is the method the request was for.
Answer(kind, method, proceed) ==
    [kind |-> kind, method |-> method, proceed_with_methods |-> proceed]
NoAnswer == Answer("none", "none", {})

\* No SSH session is authenticating: the runs of the SFTP session and of
\* the single functions start after authentication.
NoAuth ==
    /\ allow_password = FALSE
    /\ allow_publickey = FALSE
    /\ directory = <<>>
    /\ methods = {}
    /\ auth = NoAnswer
    /\ auth_calls = <<>>

NoVersion == [some |-> FALSE, v |-> 0]
SomeVersion(v) == [some |-> TRUE, v |-> v]

Resp(op, status) ==
    [op |-> op, status |-> status, handle |-> <<>>, names |-> {}, version |-> 0,
     data |-> <<>>, size |-> 0]
NoResp == Resp("none", "none")

\* A session and backends that nothing has been asked of yet.
Idle ==
    /\ version = NoVersion
    /\ readdir_performed = {}
    /\ resp = NoResp
    /\ calls = <<>>
    /\ open_files = [b \in vfs_map |-> <<>>]
    /\ open_dirs = [b \in vfs_map |-> <<>>]
    /\ salts = 0
    /\ issued = <<>>
    /\ closed = {}
    /\ contents = [b \in vfs_map |-> <<>>]
    /\ positions = [b \in vfs_map |-> <<>>]
    /\ in_flight = <<>>
    /\ promised = contents
    /\ writes = 0
    /\ NoAuth
    /\ NoChannels
    /\ NoLookup
    /\ NoOthers
    /\ files = [b \in vfs_map |-> {}]
    /\ dirs = [b \in vfs_map |-> {}]
    /\ links = [b \in vfs_map |-> <<>>]

Untouched == UNCHANGED <<session_vars, backend_vars, fs_vars, io_vars, ssh_vars, other_vars>>

Prefixes == {<<"/">>, <<"/", "a">>, <<"/", "b">>, <<"/", "a", "b">>}
MountTables == SUBSET Prefixes

\* Every order in which the HashMap may yield its entries.
Orders(S) ==
    {o \in [1..Cardinality(S) -> S] : \A i, j \in 1..Cardinality(S) : o[i] = o[j] => i = j}

NoMatch == [some |-> FALSE, vfs |-> <<>>, relative_path |-> <<>>]
Match(prefix, rel) == [some |-> TRUE, vfs |-> prefix, relative_path |-> rel]

\* VfsSetBuilder::local_dir caches the prefix's component count.
NumComponents(prefix) == Len(prefix)

\* The guard that lets a later entry replace the best match so far.
\* A guard that forgets the cached length: any matching entry replaces it.
BetterMatchAnyLength(path, prefix, longest_match) ==
    StartsWith(path, prefix)

BetterMatch(path, prefix, longest_match) ==
    StartsWith(path, prefix) /\ NumComponents(prefix) > longest_match

\* The exact-match result with the empty difference left as it is.
ExactMatchEmpty(prefix) == Match(prefix, <<>>)

ExactMatch(prefix) == Match(prefix, <<".">>)

RECURSIVE ResolveLoop(_, _, _, _)
ResolveLoop(order, path, best_match, longest_match) ==
    IF order = <<>> THEN best_match
    ELSE LET prefix == Head(order) IN
         IF BetterMatch(path, prefix, longest_match)
         THEN LET relative_path == DiffPaths(path, prefix).path IN
              IF relative_path = <<>> THEN ExactMatch(prefix)
              ELSE ResolveLoop(Tail(order), path,
                               Match(prefix, relative_path),
                               NumComponents(prefix))
         ELSE ResolveLoop(Tail(order), path, best_match, longest_match)

\* VfsSet::resolve_path, iterating the map in the given order.
ResolvePath(order, path) == ResolveLoop(order, path, NoMatch, 0)

\* Absolute paths as a caller may hand them to resolve_path directly.
Queries ==
    {<<"/">> \o s : s \in UNION {[1..k -> Names \cup {".."}] : k \in 0..MaxQuery}}

InitResolve ==
    /\ vfs_map \in MountTables
    /\ cwd_path = <<"/">>
    /\ input = <<>>
    /\ output = NoMatch
    /\ Idle

ResolvePathCall ==
    \E q \in Queries, order \in Orders(vfs_map) :
        /\ input' = q
        /\ output' = ResolvePath(order, q)
        /\ UNCHANGED <<vfs_map, cwd_path>>
        /\ Untouched

NextResolve == ResolvePathCall

SpecResolve == InitResolve /\ [][NextResolve]_vars

\* Properties of resolve_path.

Matching(q) == {p \in vfs_map : StartsWith(q, p)}

\* Path equality after Path::join: a "." that is not first is no component.
JoinPath(base, rel) ==
    LET j == IF IsAbsolute(rel) THEN rel ELSE base \o rel
    IN IF j = <<>> THEN j ELSE <<Head(j)>> \o DropCurDir(Tail(j))

\* C3: resolve_path selects the matching mount with the most components,
\* whatever the iteration order, and returns none exactly when no mount
\* prefix is a prefix of the query.
C3_LongestPrefix ==
    input # <<>> =>
        /\ output.some <=> Matching(input) # {}
        /\ output.some =>
               /\ output.vfs \in Matching(input)
               /\ \A p \in Matching(input) : Len(p) <= Len(output.vfs)

\* A query with two matching mounts of different lengths was routed.
C3_Witness ==
    /\ input # <<>>
    /\ Cardinality(Matching(input)) >= 2
    /\ output.some
    /\ output.vfs # <<"/">>

\* C4: the relative path is the query with the selected prefix removed, and
\* is "." exactly when the query is the prefix itself.
C4_RelativePath ==
    (input # <<>> /\ output.some) =>
        /\ JoinPath(output.vfs, output.relative_path) = input
        /\ ~IsAbsolute(output.relative_path)
        /\ (output.relative_path = <<".">>) <=> (input = output.vfs)

\* /a/b routed to (/a, b) with / mounted too, as in scenario S5.
C4_Witness ==
    /\ vfs_map = {<<"/">>, <<"/", "a">>}
    /\ input = <<"/", "a", "b">>
    /\ output = Match(<<"/", "a">>, <<"b">>)

\* ----------------------------------------------------------------- handles

\* Longest handle body drawn when rendering and parsing are checked.
MaxBody == 2

\* Characters of the strings that are sliced: the letters of the two
\* prefixes, the separator, and one more.
Chars == {"d", "_", "A"}

DirPrefix == <<"d", "i", "r", "_">>
FilePrefix == <<"f", "i", "l", "e", "_">>

FileHandle(vfs_handle) == [handle_ty |-> "File", vfs_handle |-> vfs_handle]
DirHandle(vfs_handle) == [handle_ty |-> "Dir", vfs_handle |-> vfs_handle]

\* A Display that writes the same prefix for both types.
to_string_one_prefix(h) == FilePrefix \o h.vfs_handle

\* impl Display for Handle.
to_string(h) ==
    IF h.handle_ty = "File" THEN FilePrefix \o h.vfs_handle
    ELSE DirPrefix \o h.vfs_handle

\* &handle[n..]: panics when n is past the end of the string.
SliceFrom(s, n) ==
    IF n > Len(s) THEN [panic |-> TRUE, str |-> <<>>]
    ELSE [panic |-> FALSE, str |-> SubSeq(s, n + 1, Len(s))]

ParseOk(h) == [kind |-> "ok", handle |-> h]
ParseErr == [kind |-> "err", handle |-> FileHandle(<<>>)]
ParsePanic == [kind |-> "panic", handle |-> FileHandle(<<>>)]

\* impl FromStr for Handle.
FromStr(handle) ==
    IF StartsWith(handle, <<"d", "i", "r">>)
    THEN IF SliceFrom(handle, 4).panic THEN ParsePanic
         ELSE ParseOk(DirHandle(SliceFrom(handle, 4).str))
    ELSE IF StartsWith(handle, <<"f", "i", "l", "e">>)
    THEN IF SliceFrom(handle, 5).panic THEN ParsePanic
         ELSE ParseOk(FileHandle(SliceFrom(handle, 5).str))
    ELSE ParseErr

Bodies == UNION {[1..k -> Chars] : k \in 0..MaxBody}
Handles == {FileHandle(b) : b \in Bodies} \cup {DirHandle(b) : b \in Bodies}

InitHandle ==
    /\ vfs_map = {}
    /\ cwd_path = <<"/">>
    /\ input \in Handles \X Handles
    /\ output = <<>>
    /\ Idle

\* Render both handles and parse the first rendering back.
RenderHandles ==
    /\ output = <<>>
    /\ output' = [x |-> to_string(input[1]),
                  y |-> to_string(input[2]),
                  parsed |-> FromStr(to_string(input[1]))]
    /\ UNCHANGED <<vfs_map, cwd_path, input>>
    /\ Untouched

NextHandle == RenderHandles

SpecHandle == InitHandle /\ [][NextHandle]_vars

\* C7: two handles are equal iff their wire strings are equal, and parsing
\* a rendered handle gives the handle back, type included.
C7_RenderIsomorphism ==
    output # <<>> =>
        /\ (input[1] = input[2]) <=> (output.x = output.y)
        /\ output.parsed = ParseOk(input[1])

\* A file and a directory handle with the same body were rendered.
C7_Witness ==
    /\ output # <<>>
    /\ input[1].handle_ty = "Dir"
    /\ input[2].handle_ty = "File"
    /\ input[1].vfs_handle = input[2].vfs_handle
    /\ input[1].vfs_handle # <<>>

\* ---------------------------------------------------------------- readlink

\* Longest symlink content, in segments.
MaxLink == 3

\* LocalDir.root_path: the host directory the backend serves.
RootPath == <<"/", "r">>

\* What a symlink may hold: any path, absolute or relative.
LinkContents ==
    {Components(raw) :
        raw \in [abs : BOOLEAN,
                 segs : UNION {[1..k -> {"r", "a", ".."}] : k \in 0..MaxLink}]}

\* The directories a link may lie in, relative to the backend root.
LinkDirs == {<<>>, <<"a">>}

ReadlinkOk(p) == [ok |-> TRUE, path |-> p]
WouldEscape == [ok |-> FALSE, path |-> <<>>]

\* A readlink that returns every content as it is.
ReadlinkVerbatim(link_contents) == ReadlinkOk(link_contents)

\* LocalDir::readlink, given what read_link_contents returned.
Readlink(link_contents) ==
    IF IsAbsolute(link_contents)
    THEN IF StartsWith(link_contents, RootPath)
         THEN ReadlinkOk(DiffPaths(link_contents, RootPath).path)
         ELSE WouldEscape
    ELSE ReadlinkOk(link_contents)

InitReadlink ==
    /\ vfs_map = {<<"/">>}
    /\ cwd_path = <<"/">>
    /\ input \in [dir : LinkDirs, contents : LinkContents]
    /\ output = <<>>
    /\ Idle

ReadlinkCall ==
    /\ output = <<>>
    /\ output' = Readlink(input.contents)
    /\ UNCHANGED <<vfs_map, cwd_path, input>>
    /\ Untouched

NextReadlink == ReadlinkCall

SpecReadlink == InitReadlink /\ [][NextReadlink]_vars

\* Whether walking path from the directory at the given place below the
\* root stays at or below the root at every step.
RECURSIVE StaysInside(_, _)
StaysInside(dir, path) ==
    IF path = <<>> THEN TRUE
    ELSE IF Head(path) = "/" THEN FALSE
    ELSE IF Head(path) = "."  THEN StaysInside(dir, Tail(path))
    ELSE IF Head(path) = ".."
         THEN dir # <<>> /\ StaysInside(SubSeq(dir, 1, Len(dir) - 1), Tail(path))
    ELSE StaysInside(dir \o <<Head(path)>>, Tail(path))

\* C2: every path readlink returns successfully denotes a location inside
\* the backend root when resolved from the link's directory.
C2_ReadlinkInsideRoot ==
    (output # <<>> /\ output.ok) => StaysInside(input.dir, output.path)

\* ---------------------------------------------------------------- LocalDir

\* How many opens that succeed a run follows.
MaxOpens == 2

\* A ShardMap as a function; insert replaces an entry with the same key.
Insert(m, k, v) == [x \in DOMAIN m \cup {k} |-> IF x = k THEN v ELSE m[x]]
Remove(m, k) == [x \in DOMAIN m \ {k} |-> m[x]]

RECURSIVE JoinSep(_)
JoinSep(p) == IF Len(p) <= 1 THEN p ELSE <<Head(p), "/">> \o JoinSep(Tail(p))

\* Utf8Path::as_str, as the characters and names the hasher is fed.
PathStr(p) == IF IsAbsolute(p) THEN <<"/">> \o JoinSep(Tail(p)) ELSE JoinSep(p)

\* The salt as the hasher is fed it; every draw differs from all before.
Salt(n) == <<ToString(n)>>

\* A hasher that is never fed the salt.
HandleBodyNoSalt(vfs_path, path, salt) == PathStr(vfs_path) \o PathStr(path)

\* Base64(Sha256(vfs_path, path, salt)): the digest of what the hasher was
\* fed, in the order it was fed, stands for the vfs_handle.
HandleBody(vfs_path, path, salt) ==
    PathStr(vfs_path) \o PathStr(path) \o Salt(salt)

\* The place below the root a relative path names: "." is the root itself.
RelKey(rel) == IF rel = <<".">> THEN <<>> ELSE rel

\* The host tree of a backend.
AllPaths(b) == files[b] \cup dirs[b] \cup DOMAIN links[b]
IsDir(b, p) == p = <<>> \/ p \in dirs[b]
ParentKey(p) == SubSeq(p, 1, Len(p) - 1)

\* Where a link's content leads from the link's directory; none when it
\* is absolute or climbs above the root, which the capability refuses.
RECURSIVE Walk(_, _)
Walk(at, path) ==
    IF path = <<>> THEN SomePath(at)
    ELSE IF Head(path) = "/" THEN NoPath
    ELSE IF Head(path) = "." THEN Walk(at, Tail(path))
    ELSE IF Head(path) = ".."
         THEN IF at = <<>> THEN NoPath ELSE Walk(ParentKey(at), Tail(path))
    ELSE Walk(at \o <<Head(path)>>, Tail(path))

\* Where a path leads once the symlinks it names are followed.
RECURSIVE Resolve(_, _, _)
Resolve(b, p, fuel) ==
    IF p \in files[b] \/ IsDir(b, p) THEN SomePath(p)
    ELSE IF p \in DOMAIN links[b] /\ fuel > 0
         THEN LET to == Walk(ParentKey(p), links[b][p])
              IN IF to.some THEN Resolve(b, to.path, fuel - 1) ELSE NoPath
    ELSE NoPath

\* The place a path names below the root; none when it leaves the root.
Place(rel) == Walk(<<>>, rel)

\* A place other than the root whose parent is a directory.
Slot(b, rel) ==
    LET at == Place(rel) IN
    IF at.some /\ at.path # <<>> /\ IsDir(b, ParentKey(at.path)) THEN at ELSE NoPath

\* Dir::metadata: what a path names, following symlinks.
Metadata(b, p) ==
    LET r == Resolve(b, p, Cardinality(DOMAIN links[b])) IN
    IF ~r.some THEN "error" ELSE IF r.path \in files[b] THEN "file" ELSE "dir"

\* The names directly below a directory.
Entries(b, d) ==
    {p[Len(p)] : p \in {q \in AllPaths(b) : q # <<>> /\ ParentKey(q) = d}}

ReadDirOk(names) == [ok |-> TRUE, names |-> names]
ReadDirErr == [ok |-> FALSE, names |-> {}]

\* LocalDir::read_dir: the metadata of every entry is read, and one that
\* cannot be read fails the listing.
ReadDir(b, h) ==
    IF h.handle_ty = "Dir"
    THEN IF h.vfs_handle \in DOMAIN open_dirs[b]
         THEN LET d == open_dirs[b][h.vfs_handle] IN
              IF \A e \in Entries(b, d) : Metadata(b, d \o <<e>>) # "error"
              THEN ReadDirOk(Entries(b, d))
              ELSE ReadDirErr
         ELSE ReadDirErr
    ELSE ReadDirErr

\* An owns_handle that knows only the handles the session at work opened.
OwnsHandleOfSession(b, h) ==
    /\ IF h.handle_ty = "File" THEN h.vfs_handle \in DOMAIN open_files[b]
       ELSE h.vfs_handle \in DOMAIN open_dirs[b]
    /\ \E i \in DOMAIN issued : issued[i].handle = h /\ issued[i].session = session

\* LocalDir::owns_handle.
OwnsHandle(b, h) ==
    IF h.handle_ty = "File" THEN h.vfs_handle \in DOMAIN open_files[b]
    ELSE h.vfs_handle \in DOMAIN open_dirs[b]

\* A close that removes from the table of the other handle type.
CloseWrongTable(b, h) ==
    [open_files |-> IF h.handle_ty = "Dir"
                    THEN Remove(open_files[b], h.vfs_handle) ELSE open_files[b],
     open_dirs |-> IF h.handle_ty = "File"
                   THEN Remove(open_dirs[b], h.vfs_handle) ELSE open_dirs[b]]

\* LocalDir::close: the two tables of the backend afterwards.
Close(b, h) ==
    [open_files |-> IF h.handle_ty = "File"
                    THEN Remove(open_files[b], h.vfs_handle) ELSE open_files[b],
     open_dirs |-> IF h.handle_ty = "Dir"
                   THEN Remove(open_dirs[b], h.vfs_handle) ELSE open_dirs[b]]

NoVfs == [some |-> FALSE, vfs |-> <<>>]
SomeVfs(b) == [some |-> TRUE, vfs |-> b]

\* VfsSet::resolve_handle, iterating the map in the given order.
RECURSIVE ResolveHandle(_, _)
ResolveHandle(order, h) ==
    IF order = <<>> THEN NoVfs
    ELSE IF OwnsHandle(Head(order), h) THEN SomeVfs(Head(order))
    ELSE ResolveHandle(Tail(order), h)

\* ------------------------------------------------------------ SFTP session

Versions == {3, 4}

Call(vfs, op, args) == [vfs |-> vfs, op |-> op, args |-> args]

\* A handler that panicked has ended the session's task.
Running == resp.status # "Panic"

\* path_match up to the call of the handler's closure: the path made
\* absolute against the cwd and routed.  A Rust String is valid UTF-8 and
\* absolutize_from does not fail, so the Failure arm is never taken.
PathMatch(raw, order) ==
    ResolvePath(order, AbsolutizeFrom(Components(raw), cwd_path))

\* handle_match up to the call of the handler's closure.
HandleMatch(hstr, order) ==
    LET parsed == FromStr(hstr) IN
    IF parsed.kind = "panic"
    THEN [kind |-> "Panic", vfs |-> <<>>, handle |-> parsed.handle]
    ELSE IF parsed.kind = "err"
    THEN [kind |-> "BadMessage", vfs |-> <<>>, handle |-> parsed.handle]
    ELSE LET owner == ResolveHandle(order, parsed.handle) IN
         IF owner.some
         THEN [kind |-> "fun", vfs |-> owner.vfs, handle |-> parsed.handle]
         ELSE [kind |-> "NoSuchFile", vfs |-> <<>>, handle |-> parsed.handle]

\* An init that stores the version whatever was stored before.
NegotiatedVersionOverwrite(old, v) == SomeVersion(v)

\* SftpSession::init: the version stored afterwards.
NegotiatedVersion(old, v) == IF old.some THEN old ELSE SomeVersion(v)

SftpInit(v) ==
    /\ Running
    /\ version' = NegotiatedVersion(version, v)
    /\ resp' = IF version.some THEN Resp("init", "BadMessage")
               ELSE [Resp("init", "Version") EXCEPT !.version = v]
    /\ calls' = <<>>
    /\ UNCHANGED <<vfs_map, cwd_path, ssh_vars, other_vars, io_vars, readdir_performed, backend_vars, fs_vars,
                   input, output>>

\* The bytes of a regular file; a file no run has written yet is empty.
Content(b, p) == IF p \in DOMAIN contents[b] THEN contents[b][p] ELSE <<>>

\* An open file: what it names and how it was opened.  The clones get_file
\* makes share these and the file position.
File(path, flags) == [path |-> path, flags |-> flags]

ReadOnly == {"READ"}

\* OpenOptions as open_with accepts them: an access mode is needed, and
\* create, truncate and create_new need write access.
ValidOptions(flags) ==
    /\ flags \cap {"READ", "WRITE", "APPEND"} # {}
    /\ IF "APPEND" \in flags THEN ~("TRUNCATE" \in flags /\ "EXCLUDE" \notin flags)
       ELSE IF "WRITE" \in flags THEN TRUE
       ELSE flags \cap {"CREATE", "TRUNCATE", "EXCLUDE"} = {}

OpenErr(b) ==
    [ok |-> FALSE, path |-> <<>>, files |-> files[b], contents |-> contents[b]]
OpenOk(b, path, fs, cs) == [ok |-> TRUE, path |-> path, files |-> fs, contents |-> cs]

\* root_dir.open_with(path, options): the file opened and what became of
\* the tree.  A directory opens for reading only.
OpenWith(b, rel, flags) ==
    LET at == Place(rel)
        to == IF at.some THEN Resolve(b, at.path, Cardinality(DOMAIN links[b]))
              ELSE NoPath
    IN IF ~ValidOptions(flags) \/ ~at.some THEN OpenErr(b)
       ELSE IF to.some /\ to.path \in files[b]
       THEN IF "EXCLUDE" \in flags THEN OpenErr(b)
            ELSE IF "TRUNCATE" \in flags
                 THEN OpenOk(b, to.path, files[b], Insert(contents[b], to.path, <<>>))
                 ELSE OpenOk(b, to.path, files[b], contents[b])
       ELSE IF to.some
       THEN IF flags \cap {"WRITE", "APPEND"} = {}
            THEN OpenOk(b, to.path, files[b], contents[b])
            ELSE OpenErr(b)
       ELSE IF /\ flags \cap {"CREATE", "EXCLUDE"} # {}
               /\ at.path \notin AllPaths(b)
               /\ Slot(b, rel).some
            THEN OpenOk(b, at.path, files[b] \cup {at.path},
                        Insert(contents[b], at.path, <<>>))
            ELSE OpenErr(b)

\* SftpSession::open with LocalDir::open.
SftpOpen(raw, pflags, order) ==
    /\ Running
    /\ salts < MaxOpens
    /\ LET pm == PathMatch(raw, order) IN
       IF ~pm.some
       THEN /\ resp' = Resp("open", "NoSuchFile")
            /\ calls' = <<>>
            /\ UNCHANGED <<backend_vars, files, contents, positions, promised>>
       ELSE LET vfs == pm.vfs
                file == OpenWith(vfs, pm.relative_path, pflags)
                h == FileHandle(HandleBody(vfs, pm.relative_path, salts + 1))
            IN /\ calls' = <<Call(vfs, "open", <<pm.relative_path>>)>>
               /\ files' = [files EXCEPT ![vfs] = file.files]
               /\ contents' = [contents EXCEPT ![vfs] = file.contents]
               /\ promised' = IF file.contents = contents[vfs] THEN promised
                              ELSE [promised EXCEPT ![vfs] = Insert(@, file.path, <<>>)]
               /\ IF file.ok
                  THEN /\ open_files' =
                            [open_files EXCEPT
                                ![vfs] = Insert(@, h.vfs_handle, File(file.path, pflags))]
                       /\ positions' = [positions EXCEPT ![vfs] = Insert(@, h.vfs_handle, 0)]
                       /\ salts' = salts + 1
                       /\ issued' = Append(issued, [vfs |-> vfs, handle |-> h, path |-> file.path,
                                                 flags |-> pflags, session |-> session])
                       /\ resp' = [Resp("open", "Handle") EXCEPT !.handle = to_string(h)]
                       /\ UNCHANGED <<open_dirs, closed>>
                  ELSE /\ resp' = Resp("open", "Failure")
                       /\ UNCHANGED <<backend_vars, positions>>
    /\ UNCHANGED <<vfs_map, cwd_path, ssh_vars, other_vars, version, readdir_performed, dirs, links,
                   in_flight, writes, input, output>>

\* SftpSession::opendir with LocalDir::open_dir.
SftpOpenDir(raw, order) ==
    /\ Running
    /\ salts < MaxOpens
    /\ LET pm == PathMatch(raw, order) IN
       IF ~pm.some
       THEN /\ resp' = Resp("opendir", "NoSuchFile")
            /\ calls' = <<>>
            /\ UNCHANGED backend_vars
       ELSE LET vfs == pm.vfs
                dir == Resolve(vfs, RelKey(pm.relative_path),
                               Cardinality(DOMAIN links[vfs]))
                h == DirHandle(HandleBody(vfs, pm.relative_path, salts + 1))
            IN /\ calls' = <<Call(vfs, "open_dir", <<pm.relative_path>>)>>
               /\ IF dir.some /\ IsDir(vfs, dir.path)
                  THEN /\ open_dirs' =
                            [open_dirs EXCEPT ![vfs] = Insert(@, h.vfs_handle, dir.path)]
                       /\ salts' = salts + 1
                       /\ issued' = Append(issued, [vfs |-> vfs, handle |-> h, path |-> dir.path,
                                                 flags |-> {}, session |-> session])
                       /\ resp' = [Resp("opendir", "Handle") EXCEPT !.handle = to_string(h)]
                       /\ UNCHANGED <<open_files, closed>>
                  ELSE /\ resp' = Resp("opendir", "Failure")
                       /\ UNCHANGED backend_vars
    /\ UNCHANGED <<vfs_map, cwd_path, ssh_vars, other_vars, io_vars, version, readdir_performed, fs_vars,
                   input, output>>

\* SftpSession::close with LocalDir::close.
SftpClose(hstr, order) ==
    /\ Running
    /\ LET m == HandleMatch(hstr, order) IN
       IF m.kind = "fun"
       THEN LET t == Close(m.vfs, m.handle) IN
            /\ readdir_performed' = readdir_performed \ {m.handle}
            /\ open_files' = [open_files EXCEPT ![m.vfs] = t.open_files]
            /\ open_dirs' = [open_dirs EXCEPT ![m.vfs] = t.open_dirs]
            /\ closed' = closed \cup {m.handle}
            /\ calls' = <<Call(m.vfs, "close", <<m.handle.vfs_handle>>)>>
            /\ resp' = Resp("close", "Ok")
            /\ UNCHANGED <<salts, issued>>
       ELSE /\ resp' = Resp("close", m.kind)
            /\ calls' = <<>>
            /\ UNCHANGED <<readdir_performed, backend_vars>>
    /\ UNCHANGED <<vfs_map, cwd_path, ssh_vars, other_vars, io_vars, version, fs_vars, input, output>>

\* SftpSession::readdir with LocalDir::read_dir.
SftpReaddir(hstr, order) ==
    /\ Running
    /\ LET m == HandleMatch(hstr, order) IN
       IF m.kind = "fun"
       THEN IF m.handle \notin readdir_performed
            THEN LET listing == ReadDir(m.vfs, m.handle) IN
                 /\ calls' = <<Call(m.vfs, "read_dir", <<m.handle.vfs_handle>>)>>
                 /\ IF listing.ok
                    THEN /\ readdir_performed' = readdir_performed \cup {m.handle}
                         /\ resp' = [Resp("readdir", "Name") EXCEPT
                                        !.names = listing.names,
                                        !.handle = to_string(m.handle)]
                    ELSE /\ resp' = [Resp("readdir", "Failure") EXCEPT
                                        !.handle = to_string(m.handle)]
                         /\ UNCHANGED readdir_performed
            ELSE /\ calls' = <<>>
                 /\ resp' = [Resp("readdir", "Eof") EXCEPT !.handle = to_string(m.handle)]
                 /\ UNCHANGED readdir_performed
       ELSE /\ resp' = Resp("readdir", m.kind)
            /\ calls' = <<>>
            /\ UNCHANGED readdir_performed
    /\ UNCHANGED <<vfs_map, cwd_path, ssh_vars, other_vars, io_vars, version, backend_vars, fs_vars, input, output>>

\* The mount tables the session is run against.
SessionTables ==
    {{<<"/">>, <<"/", "a">>}, {<<"/", "a">>, <<"/", "b">>}}

\* The paths the client opens: /a/a, a/b and /a/../b.
HandlePaths ==
    {[abs |-> TRUE, segs |-> <<"a", "a">>],
     [abs |-> FALSE, segs |-> <<"a", "b">>],
     [abs |-> TRUE, segs |-> <<"a", "..", "b">>]}

\* The host tree every backend starts with: a file b and a directory a
\* that holds a file b and a symlink a whose target m does not exist.
HostTree ==
    [files |-> {<<"b">>, <<"a", "b">>},
     dirs |-> {<<"a">>},
     links |-> (<<"a", "a">> :> <<"m">>)]

\* The handle strings a client sends: what it was given, the same with
\* another character in the separator's place or the other type's prefix,
\* and strings it was never given.
SeparatorChanged(h) ==
    IF h.handle_ty = "File" THEN <<"f", "i", "l", "e", "A">> \o h.vfs_handle
    ELSE <<"d", "i", "r", "A">> \o h.vfs_handle
OtherType(h) ==
    IF h.handle_ty = "File" THEN DirHandle(h.vfs_handle) ELSE FileHandle(h.vfs_handle)
ClientHandles ==
    UNION {{to_string(issued[i].handle),
            SeparatorChanged(issued[i].handle),
            to_string(OtherType(issued[i].handle))} : i \in DOMAIN issued}
    \cup {<<"x">>, <<"d", "i", "r">>}

Init ==
    /\ vfs_map \in SessionTables
    /\ cwd_path = <<"/">>
    /\ version = NoVersion
    /\ readdir_performed = {}
    /\ resp = NoResp
    /\ calls = <<>>
    /\ open_files = [b \in vfs_map |-> <<>>]
    /\ open_dirs = [b \in vfs_map |-> <<>>]
    /\ salts = 0
    /\ issued = <<>>
    /\ closed = {}
    /\ contents = [b \in vfs_map |-> <<>>]
    /\ positions = [b \in vfs_map |-> <<>>]
    /\ in_flight = <<>>
    /\ promised = contents
    /\ writes = 0
    /\ NoAuth
    /\ NoChannels
    /\ NoLookup
    /\ NoOthers
    /\ files = [b \in vfs_map |-> HostTree.files]
    /\ dirs = [b \in vfs_map |-> HostTree.dirs]
    /\ links = [b \in vfs_map |-> HostTree.links]
    /\ input = <<>>
    /\ output = <<>>

Next ==
    \/ \E v \in Versions : SftpInit(v)
    \/ \E raw \in HandlePaths, order \in Orders(vfs_map) :
          SftpOpen(raw, ReadOnly, order)
    \/ \E raw \in HandlePaths, order \in Orders(vfs_map) : SftpOpenDir(raw, order)
    \/ \E hstr \in ClientHandles, order \in Orders(vfs_map) : SftpClose(hstr, order)
    \/ \E hstr \in ClientHandles, order \in Orders(vfs_map) : SftpReaddir(hstr, order)

Spec == Init /\ [][Next]_vars

\* The handles given out and not closed since, by their place in issued.
Live == {i \in DOMAIN issued : issued[i].handle \notin closed}

\* Every entry of every backend's two tables.
OpenEntries ==
    UNION {{<<b, "File", k>> : k \in DOMAIN open_files[b]}
           \cup {<<b, "Dir", k>> : k \in DOMAIN open_dirs[b]} : b \in vfs_map}

\* A handle body without the salt it ends with.
Unsalted(h) == SubSeq(h.vfs_handle, 1, Len(h.vfs_handle) - 1)

\* C5: the wire forms of the open handles are pairwise distinct, and no
\* open or open_dir replaced an entry: the tables hold one entry for each.
C5_HandlesDistinct ==
    /\ \A i, j \in Live :
          i # j => to_string(issued[i].handle) # to_string(issued[j].handle)
    /\ Cardinality(OpenEntries) = Cardinality(Live)

\* Two handles of the same path of the same backend are open.
C5_Witness ==
    \E i, j \in Live :
        /\ i # j
        /\ issued[i].vfs = issued[j].vfs
        /\ issued[i].handle.handle_ty = issued[j].handle.handle_ty
        /\ Unsalted(issued[i].handle) = Unsalted(issued[j].handle)

\* C6: a handle given out and not closed is owned by the backend that gave
\* it and by no other, and resolve_handle finds that backend in every
\* iteration order; a closed handle is owned by none and resolves to none.
C6_HandleRouting ==
    \A i \in DOMAIN issued :
        LET h == issued[i].handle
            owners == {b \in vfs_map : OwnsHandle(b, h)}
        IN IF i \in Live
           THEN /\ owners = {issued[i].vfs}
                /\ \A order \in Orders(vfs_map) :
                      ResolveHandle(order, h) = SomeVfs(issued[i].vfs)
           ELSE /\ owners = {}
                /\ \A order \in Orders(vfs_map) : ResolveHandle(order, h) = NoVfs

\* A handle of one backend is open and a handle of another was closed.
C6_Witness ==
    \E i \in Live, j \in DOMAIN issued \ Live :
        /\ issued[i].vfs # issued[j].vfs
        /\ resp.op = "close"
        /\ resp.status = "Ok"

\* C8: a READDIR on an open directory handle answers with every entry of
\* the directory when none was answered before, and with Eof afterwards.
C8_ReaddirOnceThenEof ==
    [][\A i \in Live :
          LET h == issued[i].handle IN
          (/\ h.handle_ty = "Dir"
           /\ resp'.op = "readdir"
           /\ resp'.handle = to_string(h))
          => IF h \in readdir_performed
             THEN resp'.status = "Eof"
             ELSE /\ resp'.status = "Name"
                  /\ resp'.names =
                        Entries(issued[i].vfs, open_dirs[issued[i].vfs][h.vfs_handle])]_vars

\* C9: the version starts as none; the first INIT stores the version it
\* is sent; once one is stored no step changes it, and an INIT is answered
\* BadMessage and changes nothing else of the session either.
C9_VersionOnce ==
    /\ version = NoVersion
    /\ [][/\ version.some => version' = version
          /\ (~version.some /\ resp'.op = "init")
             => /\ resp'.status = "Version"
                /\ version' = SomeVersion(resp'.version)
          /\ (~version.some /\ resp'.op # "init") => version' = version
          /\ (version.some /\ resp'.op = "init")
             => /\ resp'.status = "BadMessage"
                /\ UNCHANGED <<vfs_map, cwd_path, ssh_vars, other_vars, io_vars, version, readdir_performed,
                               backend_vars, fs_vars>>]_vars

\* A later INIT was answered BadMessage while a handle was open.
C9_Witness ==
    /\ version.some
    /\ resp.op = "init"
    /\ resp.status = "BadMessage"
    /\ Live # {}

\* ------------------------------------------------------ path-based requests

\* The host tree of a backend and the outcome of an operation on it.  No
\* symlink of the trees the runs start from leads to a directory, so the
\* directory a name lies in is found without following any.
Tree(b) == [files |-> files[b], dirs |-> dirs[b], links |-> links[b]]
Done(b) == [ok |-> TRUE, tree |-> Tree(b), path |-> <<>>, size |-> 0]
Failed(b) == [ok |-> FALSE, tree |-> Tree(b), path |-> <<>>, size |-> 0]
Changed(t) == [ok |-> TRUE, tree |-> t, path |-> <<>>, size |-> 0]

Below(b, d) == {q \in AllPaths(b) : q # d /\ StartsWith(q, d)}

\* LocalDir::remove_file.
RemoveFile(b, rel) ==
    LET s == Slot(b, rel) IN
    IF s.some /\ s.path \in files[b] \cup DOMAIN links[b]
    THEN Changed([files |-> files[b] \ {s.path},
                  dirs |-> dirs[b],
                  links |-> Remove(links[b], s.path)])
    ELSE Failed(b)

\* LocalDir::mkdir.
Mkdir(b, rel) ==
    LET s == Slot(b, rel) IN
    IF s.some /\ s.path \notin AllPaths(b)
    THEN Changed([Tree(b) EXCEPT !.dirs = @ \cup {s.path}])
    ELSE Failed(b)

\* LocalDir::remove_dir.
RemoveDir(b, rel) ==
    LET s == Slot(b, rel) IN
    IF s.some /\ s.path \in dirs[b] /\ Below(b, s.path) = {}
    THEN Changed([Tree(b) EXCEPT !.dirs = @ \ {s.path}])
    ELSE Failed(b)

\* Metadata::size of a path that names something: the length of a regular
\* file, and nothing the runs look at for a directory or a symlink.
Size(b, p) == IF p \in files[b] THEN Len(Content(b, p)) ELSE 0

\* LocalDir::stat, which follows symlinks.
Stat(b, rel) ==
    LET at == Place(rel) IN
    IF at.some /\ Metadata(b, at.path) # "error"
    THEN [Done(b) EXCEPT
             !.size = Size(b, Resolve(b, at.path, Cardinality(DOMAIN links[b])).path)]
    ELSE Failed(b)

\* LocalDir::set_times, which follows symlinks: whether it succeeds.
SetTimes(b, rel) == [Stat(b, rel) EXCEPT !.size = 0]

\* What a path names once its symlinks are followed.
Target(b, rel) == Resolve(b, Place(rel).path, Cardinality(DOMAIN links[b])).path

\* set_times with an absent time written as the epoch.
TouchOrEpoch(key, atime, mtime) ==
    IF key \in DOMAIN inodes
    THEN [inodes EXCEPT ![key].atime = IF atime.some THEN atime.value ELSE 0,
                        ![key].mtime = IF mtime.some THEN mtime.value ELSE 0]
    ELSE inodes

\* Dir::set_times and SetTimes::set_times on the inode: a time that is
\* None is omitted.  The inodes no run looks at are not kept.
Touch(key, atime, mtime) ==
    IF key \in DOMAIN inodes
    THEN [inodes EXCEPT ![key].atime = IF atime.some THEN atime.value ELSE @,
                        ![key].mtime = IF mtime.some THEN mtime.value ELSE @]
    ELSE inodes

\* LocalDir::stat_link.
StatLink(b, rel) ==
    LET at == Place(rel) IN
    IF at.some /\ (at.path = <<>> \/ at.path \in AllPaths(b))
    THEN [Done(b) EXCEPT !.size = Size(b, at.path)] ELSE Failed(b)

\* LocalDir::readlink of a path of the tree.
ReadlinkAt(b, rel) ==
    LET at == Place(rel) IN
    IF at.some /\ at.path \in DOMAIN links[b]
    THEN LET r == Readlink(links[b][at.path]) IN
         IF r.ok THEN [Done(b) EXCEPT !.path = r.path] ELSE Failed(b)
    ELSE Failed(b)

\* Where a path at or below from lies once from has become to.
Moved(q, from, to) ==
    IF StartsWith(q, from) THEN to \o SubSeq(q, Len(from) + 1, Len(q)) ELSE q

\* LocalDir::rename: Dir::rename within the one root.
Rename(b, from, to) ==
    LET f == Slot(b, from)
        t == Slot(b, to)
    IN IF ~(f.some /\ t.some /\ f.path \in AllPaths(b)) THEN Failed(b)
       ELSE IF f.path = t.path THEN Done(b)
       ELSE IF f.path \in dirs[b]
                 /\ (StartsWith(t.path, f.path)
                     \/ t.path \in files[b] \cup DOMAIN links[b]
                     \/ (t.path \in dirs[b] /\ Below(b, t.path) # {}))
            THEN Failed(b)
       ELSE IF f.path \notin dirs[b] /\ t.path \in dirs[b] THEN Failed(b)
       ELSE LET kept == Remove(links[b], t.path) IN
            Changed([files |-> {Moved(q, f.path, t.path) : q \in files[b] \ {t.path}},
                     dirs |-> {Moved(q, f.path, t.path) : q \in dirs[b] \ {t.path}},
                     links |-> [k \in {Moved(q, f.path, t.path) : q \in DOMAIN kept} |->
                                  kept[CHOOSE q \in DOMAIN kept :
                                           Moved(q, f.path, t.path) = k]]])

\* LocalDir::symlink: Dir::symlink(original, link) is handed path as the
\* original and the difference of target from path as the link's name.
Symlink(b, path, target) ==
    LET relative_target == DiffPaths(target, path) IN
    IF ~relative_target.some THEN Failed(b)
    ELSE LET s == Slot(b, relative_target.path) IN
         IF s.some /\ s.path \notin AllPaths(b) /\ ~IsAbsolute(path)
         THEN Changed([Tree(b) EXCEPT !.links = Insert(@, s.path, path)])
         ELSE Failed(b)

\* path_match when no mount matches.
\* An unrouted path answered as a failure of the backend: mutation of Unrouted.
UnroutedAsFailure(op) ==
    /\ resp' = Resp(op, "Failure")
    /\ calls' = <<>>
    /\ UNCHANGED fs_vars

Unrouted(op) ==
    /\ resp' = Resp(op, "NoSuchFile")
    /\ calls' = <<>>
    /\ UNCHANGED fs_vars

\* The handler's closure: one backend operation and the answer made of it.
Answered(op, call, r, ok_status) ==
    /\ calls' = <<call>>
    /\ resp' = IF r.ok THEN [Resp(op, ok_status) EXCEPT !.names = {r.path} \ {<<>>},
                                                         !.size = r.size]
               ELSE Resp(op, "Failure")
    /\ files' = [files EXCEPT ![call.vfs] = r.tree.files]
    /\ dirs' = [dirs EXCEPT ![call.vfs] = r.tree.dirs]
    /\ links' = [links EXCEPT ![call.vfs] = r.tree.links]

SftpLstat(raw, order) ==
    /\ Running
    /\ LET pm == PathMatch(raw, order) IN
       IF ~pm.some THEN Unrouted("lstat")
       ELSE Answered("lstat", Call(pm.vfs, "stat_link", <<pm.relative_path>>),
                     StatLink(pm.vfs, pm.relative_path), "Attrs")
    /\ UNCHANGED <<vfs_map, cwd_path, ssh_vars, other_vars, io_vars, version, readdir_performed, backend_vars,
                   input, output>>

\* SftpSession::setstat: of attrs only atime and mtime are passed on.
SftpSetstat(raw, attrs, order) ==
    /\ Running
    /\ LET pm == PathMatch(raw, order) IN
       IF ~pm.some THEN Unrouted("setstat") /\ UNCHANGED inodes
       ELSE LET r == SetTimes(pm.vfs, pm.relative_path) IN
            /\ Answered("setstat",
                        Call(pm.vfs, "set_times",
                             <<pm.relative_path, attrs.atime, attrs.mtime>>),
                        r, "Ok")
            /\ inodes' = IF r.ok
                         THEN Touch(<<pm.vfs, Target(pm.vfs, pm.relative_path)>>,
                                    attrs.atime, attrs.mtime)
                         ELSE inodes
    /\ UNCHANGED <<vfs_map, cwd_path, ssh_vars, parked, session, io_vars, version,
                   readdir_performed, backend_vars, input, output>>

\* SftpSession::fsetstat and LocalDir::set_times_fd, which refuses a
\* directory handle.
SftpFsetstat(hstr, attrs, order) ==
    /\ Running
    /\ LET m == HandleMatch(hstr, order) IN
       IF m.kind = "fun"
       THEN /\ calls' = <<Call(m.vfs, "set_times_fd",
                               <<m.handle.vfs_handle, attrs.atime, attrs.mtime>>)>>
            /\ IF m.handle.handle_ty = "File"
               THEN /\ resp' = Resp("fsetstat", "Ok")
                    /\ inodes' =
                         Touch(<<m.vfs, open_files[m.vfs][m.handle.vfs_handle].path>>,
                               attrs.atime, attrs.mtime)
               ELSE /\ resp' = Resp("fsetstat", "Failure")
                    /\ UNCHANGED inodes
       ELSE /\ resp' = Resp("fsetstat", m.kind)
            /\ calls' = <<>>
            /\ UNCHANGED inodes
    /\ UNCHANGED <<vfs_map, cwd_path, ssh_vars, parked, session, io_vars, version,
                   readdir_performed, backend_vars, fs_vars, input, output>>

SftpRemove(raw, order) ==
    /\ Running
    /\ LET pm == PathMatch(raw, order) IN
       IF ~pm.some THEN Unrouted("remove")
       ELSE Answered("remove", Call(pm.vfs, "remove_file", <<pm.relative_path>>),
                     RemoveFile(pm.vfs, pm.relative_path), "Ok")
    /\ UNCHANGED <<vfs_map, cwd_path, ssh_vars, other_vars, io_vars, version, readdir_performed, backend_vars,
                   input, output>>

SftpMkdir(raw, order) ==
    /\ Running
    /\ LET pm == PathMatch(raw, order) IN
       IF ~pm.some THEN Unrouted("mkdir")
       ELSE Answered("mkdir", Call(pm.vfs, "mkdir", <<pm.relative_path>>),
                     Mkdir(pm.vfs, pm.relative_path), "Ok")
    /\ UNCHANGED <<vfs_map, cwd_path, ssh_vars, other_vars, io_vars, version, readdir_performed, backend_vars,
                   input, output>>

SftpRmdir(raw, order) ==
    /\ Running
    /\ LET pm == PathMatch(raw, order) IN
       IF ~pm.some THEN Unrouted("rmdir")
       ELSE Answered("rmdir", Call(pm.vfs, "remove_dir", <<pm.relative_path>>),
                     RemoveDir(pm.vfs, pm.relative_path), "Ok")
    /\ UNCHANGED <<vfs_map, cwd_path, ssh_vars, other_vars, io_vars, version, readdir_performed, backend_vars,
                   input, output>>

SftpStat(raw, order) ==
    /\ Running
    /\ LET pm == PathMatch(raw, order) IN
       IF ~pm.some THEN Unrouted("stat")
       ELSE Answered("stat", Call(pm.vfs, "stat", <<pm.relative_path>>),
                     Stat(pm.vfs, pm.relative_path), "Attrs")
    /\ UNCHANGED <<vfs_map, cwd_path, ssh_vars, other_vars, io_vars, version, readdir_performed, backend_vars,
                   input, output>>

SftpReadlink(raw, order) ==
    /\ Running
    /\ LET pm == PathMatch(raw, order) IN
       IF ~pm.some THEN Unrouted("readlink")
       ELSE Answered("readlink", Call(pm.vfs, "readlink", <<pm.relative_path>>),
                     ReadlinkAt(pm.vfs, pm.relative_path), "Name")
    /\ UNCHANGED <<vfs_map, cwd_path, ssh_vars, other_vars, io_vars, version, readdir_performed, backend_vars,
                   input, output>>

\* A check that takes any two backends for the same instance.
SameInstanceAlways(vfs1, vfs2) == TRUE

\* Arc::ptr_eq: the table holds one instance per prefix.
SameInstance(vfs1, vfs2) == vfs1 = vfs2

\* path_match2 up to the call of the handler's closure; both lookups
\* iterate the same unmodified map.
PathMatch2(raw1, raw2, order) ==
    LET path_match1 == PathMatch(raw1, order)
        path_match2 == PathMatch(raw2, order)
    IN IF path_match1.some /\ path_match2.some
       THEN IF SameInstance(path_match1.vfs, path_match2.vfs)
            THEN [kind |-> "fun", vfs |-> path_match1.vfs,
                  path1 |-> path_match1.relative_path,
                  path2 |-> path_match2.relative_path]
            ELSE [kind |-> "Failure", vfs |-> <<>>, path1 |-> <<>>, path2 |-> <<>>]
       ELSE [kind |-> "NoSuchFile", vfs |-> <<>>, path1 |-> <<>>, path2 |-> <<>>]

\* path_match2 when the closure is not called.
Unrouted2(op, kind) ==
    /\ resp' = Resp(op, kind)
    /\ calls' = <<>>
    /\ UNCHANGED fs_vars

SftpRename(old_path, new_path, order) ==
    /\ Running
    /\ LET m == PathMatch2(old_path, new_path, order) IN
       IF m.kind # "fun" THEN Unrouted2("rename", m.kind)
       ELSE Answered("rename", Call(m.vfs, "rename", <<m.path1, m.path2>>),
                     Rename(m.vfs, m.path1, m.path2), "Ok")
    /\ UNCHANGED <<vfs_map, cwd_path, ssh_vars, other_vars, io_vars, version, readdir_performed, backend_vars,
                   input, output>>

SftpSymlink(link_path, target_path, order) ==
    /\ Running
    /\ LET m == PathMatch2(link_path, target_path, order) IN
       IF m.kind # "fun" THEN Unrouted2("symlink", m.kind)
       ELSE Answered("symlink", Call(m.vfs, "symlink", <<m.path1, m.path2>>),
                     Symlink(m.vfs, m.path1, m.path2), "Ok")
    /\ UNCHANGED <<vfs_map, cwd_path, ssh_vars, other_vars, io_vars, version, readdir_performed, backend_vars,
                   input, output>>

\* The mount tables the path-based requests are run against.
PathTables ==
    {{<<"/">>}, {<<"/">>, <<"/", "a">>}, {<<"/", "a">>, <<"/", "b">>}}

\* The second operand of RENAME and SYMLINK is drawn absolute.
SecondPaths == {raw \in RawPathsUpTo(MaxSegs2) : raw.abs}

\* A host tree with nothing but an empty directory a.
EmptyDirTree == [files |-> {}, dirs |-> {<<"a">>}, links |-> <<>>]

PathTrees == {HostTree, EmptyDirTree}

\* One request per run, its path arguments drawn beforehand; the backends
\* start with the same tree.
\* The FileAttributes a SETSTAT or FSETSTAT carries: each field there or not.
Absent == [some |-> FALSE]
Carried(v) == [some |-> TRUE, value |-> v]
SetstatRequests ==
    [size : {Absent, Carried(0)}, uid : {Absent}, gid : {Absent},
     permissions : {Absent, Carried(511)},
     atime : {Absent, Carried(5)}, mtime : {Absent, Carried(7)}]
        \cup [size : {Absent}, uid : {Carried(0)}, gid : {Carried(0)},
              permissions : {Absent},
              atime : {Absent, Carried(5)}, mtime : {Absent, Carried(7)}]

InitPath ==
    /\ vfs_map \in PathTables
    /\ cwd_path = <<"/">>
    /\ version = NoVersion
    /\ readdir_performed = {}
    /\ resp = NoResp
    /\ calls = <<>>
    /\ open_files = [b \in vfs_map |-> <<>>]
    /\ open_dirs = [b \in vfs_map |-> <<>>]
    /\ salts = 0
    /\ issued = <<>>
    /\ closed = {}
    /\ contents = [b \in vfs_map |-> <<>>]
    /\ positions = [b \in vfs_map |-> <<>>]
    /\ in_flight = <<>>
    /\ promised = contents
    /\ writes = 0
    /\ NoAuth
    /\ NoChannels
    /\ NoLookup
    /\ NoOthers
    /\ \E tree \in PathTrees :
          /\ files = [b \in vfs_map |-> tree.files]
          /\ dirs = [b \in vfs_map |-> tree.dirs]
          /\ links = [b \in vfs_map |-> tree.links]
    /\ input \in [p1 : RawPathsUpTo(MaxSegs), p2 : SecondPaths]
    /\ output = <<>>

\* No request has been answered yet.
Fresh == resp = NoResp

NextPath ==
    \/ \E order \in Orders(vfs_map) : Fresh /\ SftpOpen(input.p1, ReadOnly, order)
    \/ \E order \in Orders(vfs_map) : Fresh /\ SftpOpenDir(input.p1, order)
    \/ \E order \in Orders(vfs_map) : Fresh /\ SftpLstat(input.p1, order)
    \/ \E attrs \in SetstatRequests, order \in Orders(vfs_map) :
          Fresh /\ SftpSetstat(input.p1, attrs, order)
    \/ \E order \in Orders(vfs_map) : Fresh /\ SftpRemove(input.p1, order)
    \/ \E order \in Orders(vfs_map) : Fresh /\ SftpMkdir(input.p1, order)
    \/ \E order \in Orders(vfs_map) : Fresh /\ SftpRmdir(input.p1, order)
    \/ \E order \in Orders(vfs_map) : Fresh /\ SftpStat(input.p1, order)
    \/ \E order \in Orders(vfs_map) : Fresh /\ SftpReadlink(input.p1, order)
    \/ \E order \in Orders(vfs_map) : Fresh /\ SftpRename(input.p1, input.p2, order)
    \/ \E order \in Orders(vfs_map) : Fresh /\ SftpSymlink(input.p1, input.p2, order)

SpecPath == InitPath /\ [][NextPath]_vars

\* The place a client path names when its segments are read left to right
\* from the root: "." stays, ".." goes up and stays at the root.
RECURSIVE Lexical(_, _)
Lexical(at, segs) ==
    IF segs = <<>> THEN <<"/">> \o at
    ELSE IF Head(segs) = "." THEN Lexical(at, Tail(segs))
    ELSE IF Head(segs) = ".."
         THEN Lexical(IF at = <<>> THEN at ELSE ParentKey(at), Tail(segs))
    ELSE Lexical(at \o <<Head(segs)>>, Tail(segs))

\* A relative path without "..", and without "." unless it is "." alone.
InsideRoot(p) ==
    /\ p # <<>>
    /\ ~IsAbsolute(p)
    /\ p = <<".">> \/ \A j \in DOMAIN p : p[j] \notin {".", ".."}

\* The paths among the arguments of a backend call: set_times takes the two
\* times after its path.
PathArgs(call) ==
    IF call.op = "set_times" THEN SubSeq(call.args, 1, 1) ELSE call.args

\* The request's path arguments, in the order the handler takes them.
Operands ==
    IF resp.op \in {"rename", "symlink"} THEN <<input.p1, input.p2>>
    ELSE <<input.p1>>

\* C1: every path a path-based request hands to a backend is relative, has
\* no ".." component (and is "." for the mount root), and below the mount
\* prefix names the place the client's path names with ".." stopped at "/".
C1_BackendPathInsideRoot ==
    \A i \in DOMAIN calls :
        /\ Len(PathArgs(calls[i])) = Len(Operands)
        /\ \A k \in DOMAIN PathArgs(calls[i]) :
              /\ InsideRoot(PathArgs(calls[i])[k])
              /\ JoinPath(calls[i].vfs, PathArgs(calls[i])[k]) =
                    Lexical(<<>>, Operands[k].segs)

\* A path that climbs above "/" and comes down again reached a backend.
C1_Witness ==
    /\ input.p1.segs = <<"..", "a">>
    /\ resp.op = "stat"
    /\ calls = <<Call(<<"/", "a">>, "stat", <<<<".">>>>)>>

\* Where a client path is routed; the iteration order does not matter.
Routed(raw) == PathMatch(raw, CHOOSE order \in Orders(vfs_map) : TRUE)

\* The backend operation RENAME and SYMLINK invoke.
Invoked(op) == IF op = "rename" THEN "rename" ELSE "symlink"

\* C10: a RENAME or SYMLINK whose paths are routed to different backends is
\* answered Failure, invokes nothing and leaves every tree as it was; when
\* they are routed to the same backend its operation is invoked once, with
\* the two relative paths.
C10_SameBackendOnly ==
    LET r1 == Routed(input.p1)
        r2 == Routed(input.p2)
    IN (resp.op \in {"rename", "symlink"} /\ r1.some /\ r2.some) =>
          IF r1.vfs # r2.vfs
          THEN /\ resp.status = "Failure"
               /\ calls = <<>>
               /\ \E tree \in PathTrees : \A b \in vfs_map : Tree(b) = tree
          ELSE calls = <<Call(r1.vfs, Invoked(resp.op),
                              <<r1.relative_path, r2.relative_path>>)>>

\* RENAME of /a/b to /b was refused across the mounts /a and /b, and the
\* file is still there.
C10_Witness ==
    /\ vfs_map = {<<"/", "a">>, <<"/", "b">>}
    /\ resp = Resp("rename", "Failure")
    /\ Routed(input.p1) = Match(<<"/", "a">>, <<"b">>)
    /\ Routed(input.p2) = Match(<<"/", "b">>, <<".">>)
    /\ <<"b">> \in files[<<"/", "a">>]

\* ----------------------------------------------------------------- symlink

\* Longest root-relative path handed to LocalDir::symlink, in components.
MaxRel == 2

\* The relative paths resolve_path hands out: "." or names.
RelPaths == {<<".">>} \cup UNION {[1..k -> Names] : k \in 1..MaxRel}

TheRoot == <<"/">>

\* One call of LocalDir::symlink on a backend mounted at "/".
InitSymlink ==
    /\ vfs_map = {TheRoot}
    /\ cwd_path = <<"/">>
    /\ version = NoVersion
    /\ readdir_performed = {}
    /\ resp = NoResp
    /\ calls = <<>>
    /\ open_files = [b \in vfs_map |-> <<>>]
    /\ open_dirs = [b \in vfs_map |-> <<>>]
    /\ salts = 0
    /\ issued = <<>>
    /\ closed = {}
    /\ contents = [b \in vfs_map |-> <<>>]
    /\ positions = [b \in vfs_map |-> <<>>]
    /\ in_flight = <<>>
    /\ promised = contents
    /\ writes = 0
    /\ NoAuth
    /\ NoChannels
    /\ NoLookup
    /\ NoOthers
    /\ \E tree \in PathTrees :
          /\ files = [b \in vfs_map |-> tree.files]
          /\ dirs = [b \in vfs_map |-> tree.dirs]
          /\ links = [b \in vfs_map |-> tree.links]
    /\ input \in [path : RelPaths, target : RelPaths]
    /\ output = <<>>

SymlinkCall ==
    /\ output = <<>>
    /\ LET r == Symlink(TheRoot, input.path, input.target) IN
       /\ output' = [ok |-> r.ok]
       /\ files' = [files EXCEPT ![TheRoot] = r.tree.files]
       /\ dirs' = [dirs EXCEPT ![TheRoot] = r.tree.dirs]
       /\ links' = [links EXCEPT ![TheRoot] = r.tree.links]
    /\ UNCHANGED <<vfs_map, cwd_path, ssh_vars, other_vars, io_vars, session_vars, backend_vars, input>>

NextSymlink == SymlinkCall

SpecSymlink == InitSymlink /\ [][NextSymlink]_vars

\* C11: after a symlink(link, target) that succeeded, link is a symlink
\* whose content, resolved from the directory that contains link, reaches
\* target.
C11_SymlinkReachesTarget ==
    (output # <<>> /\ output.ok) =>
        LET link == RelKey(input.path) IN
        /\ link \in DOMAIN links[TheRoot]
        /\ Walk(ParentKey(link), links[TheRoot][link]) =
              SomePath(RelKey(input.target))

\* ---------------------------------------------------------- read and write

\* Most WRITEs a run of reads and writes follows.
MaxWrites == 2

\* The data, offsets and lengths of the READs and WRITEs.
WriteData == {<<1>>, <<2>>}
Offsets == {0, 2}
Lens == {0, 1, 64}

\* The bytes a file holds if every WRITE answered Ok took effect at its
\* offset when it was answered.
Promised(b, p) == IF p \in DOMAIN promised[b] THEN promised[b][p] ELSE <<>>

Min(x, y) == IF x <= y THEN x ELSE y
Max(x, y) == IF x >= y THEN x ELSE y

\* ReadAt with the end of file forgotten: mutation of ReadAt.
ReadAtPastEnd(content, offset, len) ==
    SubSeq(content \o <<0>>, offset + 1, Min(offset + len, Len(content) + 1))

\* What a read of len bytes at offset finds: it stops at the end of file.
ReadAt(content, offset, len) ==
    SubSeq(content, offset + 1, Min(offset + len, Len(content)))

\* A file after data was written at pos; a gap before pos reads as zeros.
Overwrite(content, pos, data) ==
    [i \in 1..Max(Len(content), pos + Len(data)) |->
        IF i > pos /\ i <= pos + Len(data) THEN data[i - pos]
        ELSE IF i <= Len(content) THEN content[i] ELSE 0]

ReadErr(pos) == [kind |-> "Err", data |-> <<>>, position |-> pos]

\* LocalDir::read: seek, then read_to_end of at most len bytes; nothing
\* read of a length that is not zero is None.
Read(b, h, offset, len) ==
    IF h.handle_ty = "File"
    THEN IF h.vfs_handle \notin DOMAIN open_files[b] THEN ReadErr(0)
         ELSE LET file == open_files[b][h.vfs_handle] IN
              IF "READ" \notin file.flags \/ file.path \notin files[b]
              THEN ReadErr(offset)
              ELSE LET buf == ReadAt(Content(b, file.path), offset, len) IN
                   [kind |-> IF Len(buf) = 0 /\ len # 0 THEN "None" ELSE "Some",
                    data |-> buf,
                    position |-> offset + Len(buf)]
    ELSE ReadErr(0)

\* The task File::write_all hands to the blocking pool before it returns.
WriteTask(b, h, data) ==
    [vfs |-> b, vfs_handle |-> h.vfs_handle, file |-> open_files[b][h.vfs_handle],
     data |-> data]

\* SftpSession::read with LocalDir::read.
SftpRead(hstr, offset, len, order) ==
    /\ Running
    /\ LET m == HandleMatch(hstr, order) IN
       IF m.kind = "fun"
       THEN LET r == Read(m.vfs, m.handle, offset, len) IN
            /\ calls' = <<Call(m.vfs, "read", <<m.handle.vfs_handle>>)>>
            /\ resp' = CASE r.kind = "Some" ->
                              [Resp("read", "Data") EXCEPT !.data = r.data,
                                                           !.handle = to_string(m.handle)]
                         [] r.kind = "None" ->
                              [Resp("read", "Eof") EXCEPT !.handle = to_string(m.handle)]
                         [] OTHER ->
                              [Resp("read", "Failure") EXCEPT !.handle = to_string(m.handle)]
            /\ positions' =
                  IF m.handle.handle_ty = "File"
                  THEN [positions EXCEPT ![m.vfs][m.handle.vfs_handle] = r.position]
                  ELSE positions
       ELSE /\ resp' = Resp("read", m.kind)
            /\ calls' = <<>>
            /\ UNCHANGED positions
    /\ UNCHANGED <<vfs_map, cwd_path, ssh_vars, other_vars, version, readdir_performed, backend_vars,
                   fs_vars, contents, in_flight, promised, writes, input, output>>

\* SftpSession::write with LocalDir::write: seek, then write_all, which
\* returns once the data is handed to the blocking pool; the file that
\* waits for the task is dropped, and an error of the task with it.
SftpWrite(hstr, offset, data, order) ==
    /\ Running
    /\ writes < MaxWrites
    /\ LET m == HandleMatch(hstr, order) IN
       IF m.kind = "fun"
       THEN /\ calls' = <<Call(m.vfs, "write", <<m.handle.vfs_handle>>)>>
            /\ IF m.handle.handle_ty = "File"
               THEN /\ positions' =
                          [positions EXCEPT ![m.vfs][m.handle.vfs_handle] = offset]
                    /\ in_flight' =
                          IF data = <<>> THEN in_flight
                          ELSE Append(in_flight, WriteTask(m.vfs, m.handle, data))
                    /\ promised' =
                          LET path == open_files[m.vfs][m.handle.vfs_handle].path IN
                          [promised EXCEPT ![m.vfs] =
                              Insert(@, path, Overwrite(Promised(m.vfs, path), offset, data))]
                    /\ writes' = writes + 1
                    /\ resp' = [Resp("write", "Ok") EXCEPT !.handle = to_string(m.handle)]
               ELSE /\ resp' = [Resp("write", "Failure") EXCEPT
                                   !.handle = to_string(m.handle)]
                    /\ UNCHANGED <<positions, in_flight, promised, writes>>
       ELSE /\ resp' = Resp("write", m.kind)
            /\ calls' = <<>>
            /\ UNCHANGED <<positions, in_flight, promised, writes>>
    /\ UNCHANGED <<vfs_map, cwd_path, ssh_vars, other_vars, version, readdir_performed, backend_vars,
                   fs_vars, contents, input, output>>

Without(seq, i) == SubSeq(seq, 1, i - 1) \o SubSeq(seq, i + 1, Len(seq))

\* A thread of the blocking pool runs one of the waiting writes, at the
\* position the file has by then; the pool takes them in any order.
BlockingWrite(i) ==
    LET t == in_flight[i]
        pos == IF "APPEND" \in t.file.flags THEN Len(Content(t.vfs, t.file.path))
               ELSE positions[t.vfs][t.vfs_handle]
    IN /\ in_flight' = Without(in_flight, i)
       /\ IF t.file.flags \cap {"WRITE", "APPEND"} # {} /\ t.file.path \in files[t.vfs]
          THEN /\ contents' =
                     [contents EXCEPT ![t.vfs] =
                         Insert(@, t.file.path,
                                Overwrite(Content(t.vfs, t.file.path), pos, t.data))]
               /\ positions' =
                     [positions EXCEPT ![t.vfs][t.vfs_handle] = pos + Len(t.data)]
          ELSE UNCHANGED <<contents, positions>>
       /\ UNCHANGED <<vfs_map, cwd_path, ssh_vars, other_vars, session_vars, backend_vars, fs_vars,
                      promised, writes, input, output>>

\* The tree the reads and writes start from: one file b holding two bytes.
FileTree == [files |-> {<<"b">>}, dirs |-> {}, links |-> <<>>]
FileBytes == <<1, 2>>

\* The one path a run opens, /b or /a, and the flags it opens it with.
FilePaths ==
    {[abs |-> TRUE, segs |-> <<"b">>], [abs |-> TRUE, segs |-> <<"a">>]}
FileFlags ==
    {{"READ"}, {"READ", "WRITE"}, {"WRITE", "CREATE", "TRUNCATE"},
     {"READ", "WRITE", "CREATE", "TRUNCATE"}}

\* The handle strings the client sends: the ones it was given, open or closed.
FileClientHandles == {to_string(issued[i].handle) : i \in DOMAIN issued}

InitFile ==
    /\ vfs_map = {TheRoot}
    /\ cwd_path = <<"/">>
    /\ version = NoVersion
    /\ readdir_performed = {}
    /\ resp = NoResp
    /\ calls = <<>>
    /\ open_files = [b \in vfs_map |-> <<>>]
    /\ open_dirs = [b \in vfs_map |-> <<>>]
    /\ salts = 0
    /\ issued = <<>>
    /\ closed = {}
    /\ files = [b \in vfs_map |-> FileTree.files]
    /\ dirs = [b \in vfs_map |-> FileTree.dirs]
    /\ links = [b \in vfs_map |-> FileTree.links]
    /\ contents = [b \in vfs_map |-> (<<"b">> :> FileBytes)]
    /\ positions = [b \in vfs_map |-> <<>>]
    /\ in_flight = <<>>
    /\ promised = contents
    /\ writes = 0
    /\ NoAuth
    /\ NoChannels
    /\ NoLookup
    /\ NoOthers
    /\ input = <<>>
    /\ output = <<>>

NextFile ==
    \/ \E raw \in FilePaths, pflags \in FileFlags, order \in Orders(vfs_map) :
          salts = 0 /\ SftpOpen(raw, pflags, order)
    \/ \E hstr \in FileClientHandles, offset \in Offsets, data \in WriteData,
          order \in Orders(vfs_map) : SftpWrite(hstr, offset, data, order)
    \/ \E i \in DOMAIN in_flight : BlockingWrite(i)
    \/ \E hstr \in FileClientHandles, offset \in Offsets, len \in Lens,
          order \in Orders(vfs_map) : SftpRead(hstr, offset, len, order)
    \/ \E hstr \in FileClientHandles, order \in Orders(vfs_map) : SftpClose(hstr, order)
    \/ \E raw \in FilePaths, order \in Orders(vfs_map) : SftpStat(raw, order)

SpecFile == InitFile /\ [][NextFile]_vars

\* The issued handles that are open, name a regular file and were opened
\* for reading.
Readable ==
    {i \in Live :
        LET h == issued[i].handle IN
        /\ h.handle_ty = "File"
        /\ h.vfs_handle \in DOMAIN open_files[issued[i].vfs]
        /\ "READ" \in open_files[issued[i].vfs][h.vfs_handle].flags
        /\ open_files[issued[i].vfs][h.vfs_handle].path \in files[issued[i].vfs]}

\* The bytes of content from offset up to offset + len or the end of file.
Range(content, offset, len) ==
    [k \in 1..(Min(offset + len, Len(content)) - offset) |-> content[offset + k]]

Writers == {i \in DOMAIN issued : {"WRITE", "CREATE", "TRUNCATE"} \subseteq issued[i].flags}

\* C13: once the handle a path was opened with for WRITE, CREATE and TRUNCATE
\* is closed, a STAT of the path reports the size the WRITEs answered Ok
\* add up to, the largest offset + length; and while it is open for reading
\* too, a READ returns the bytes the last WRITEs put in the range it read.
C13_WritesReachFile ==
    \A i \in Writers :
       LET b == issued[i].vfs
           h == issued[i].handle
       IN /\ (/\ h \in closed
               /\ resp.op = "stat" /\ resp.status = "Attrs"
               /\ calls[1].vfs = b
               /\ Place(calls[1].args[1]).path = issued[i].path)
              => resp.size = Len(Promised(b, issued[i].path))
          /\ (/\ i \in Live
               /\ resp.op = "read" /\ resp.status = "Data"
               /\ resp.handle = to_string(h))
              => LET pos == positions[b][h.vfs_handle] IN
                 resp.data = SubSeq(Promised(b, open_files[b][h.vfs_handle].path),
                                    pos - Len(resp.data) + 1, pos)

\* The requests that take a path.
PathOps ==
    {"open", "opendir", "stat", "lstat", "setstat", "remove", "mkdir", "rmdir",
     "readlink", "rename", "symlink"}

\* The client path, made absolute and normalized, is below no mount prefix.
NoMount(raw) == \A b \in vfs_map : ~StartsWith(Lexical(<<>>, raw.segs), b)

\* C14: a path-based request with an operand that no mount prefix matches is
\* answered NoSuchFile; no backend operation is invoked, and no tree and no
\* table of open handles changes.
C14_UnroutedNoSuchFile ==
    (resp.op \in PathOps /\ \E k \in DOMAIN Operands : NoMount(Operands[k])) =>
        /\ resp.status = "NoSuchFile"
        /\ calls = <<>>
        /\ \E tree \in PathTrees : \A b \in vfs_map : Tree(b) = tree
        /\ \A b \in vfs_map : open_files[b] = <<>> /\ open_dirs[b] = <<>>

\* RENAME of a path below the mount /a to "/", which neither /a nor /b
\* matches, was answered NoSuchFile.
C14_Witness ==
    /\ vfs_map = {<<"/", "a">>, <<"/", "b">>}
    /\ resp = Resp("rename", "NoSuchFile")
    /\ Routed(input.p1).some
    /\ NoMount(input.p2)

\* The client path is routed to a backend whose tree has nothing at the
\* place it names.
NotFound(raw) ==
    LET r == Routed(raw) IN
    /\ r.some
    /\ Place(r.relative_path).some
    /\ Place(r.relative_path).path # <<>>
    /\ Place(r.relative_path).path \notin AllPaths(r.vfs)

\* C15: OPEN, OPENDIR, STAT and LSTAT of a routed path that names nothing in
\* the backend's tree are answered NoSuchFile.
C15_NotFoundNoSuchFile ==
    (resp.op \in {"open", "opendir", "stat", "lstat"} /\ NotFound(input.p1)) =>
        resp.status = "NoSuchFile"

\* A handle string that does not parse, or parses to a handle that no
\* backend has open.
Invalid(hstr) ==
    LET parsed == FromStr(hstr) IN
    \/ parsed.kind # "ok"
    \/ \A b \in vfs_map : ~OwnsHandle(b, parsed.handle)

\* C16: a CLOSE or READDIR whose handle string is malformed, or well-formed
\* but open on no backend, is answered BadMessage and changes neither the
\* session's nor the backends' state.
C16_InvalidHandleBadMessage ==
    [][\A hstr \in ClientHandles, order \in Orders(vfs_map) :
          (Invalid(hstr) /\ (SftpClose(hstr, order) \/ SftpReaddir(hstr, order)))
          => /\ resp'.status = "BadMessage"
             /\ UNCHANGED <<readdir_performed, backend_vars, fs_vars, io_vars>>]_vars

\* C17: every request is answered with a response or a status packet,
\* whatever handle string the client sent: no handler panics.
C17_EveryRequestAnswered == resp.status # "Panic"

\* ----------------------------------------------------------- authentication

\* MethodKind, as far as SshServer uses it.
Password == "Password"
PublicKey == "PublicKey"

\* The user names, keys and passwords a client tries.
Users == {"alice", "bob"}
Keys == {"k1", "k2"}
Passwords == {"pw1", "pw2"}

\* What AuthClient::get_user returns for a user name: an error of the
\* directory or the cache, no such user, or the user with their keys.
LookupErr == [kind |-> "Err", public_keys |-> {}]
LookupNone == [kind |-> "None", public_keys |-> {}]
LookupSome(keys) == [kind |-> "Some", public_keys |-> keys]
Lookups == {LookupErr, LookupNone, LookupSome({"k1"})}

\* What a call of the auth client came to, and the call it was.
Decision(kind, call) == [kind |-> kind, calls |-> call]
ClientCall(op, user) == <<[op |-> op, user |-> user]>>

\* AuthClient::authenticate_password: todo!(), which panics.
authenticate_password(username, password) ==
    Decision("Panic", ClientCall("authenticate_password", username))

\* AuthClient::authenticate_public_key.
authenticate_public_key(username, key) ==
    LET user == directory[username]
        call == ClientCall("authenticate_public_key", username)
    IN IF user.kind = "Err" THEN Decision("Err", call)
       ELSE IF user.kind = "Some" /\ key \in user.public_keys
       THEN Decision("true", call)
       ELSE Decision("false", call)

\* The left operand of && decided alone: the client is not called.
NotAllowed == Decision("false", <<>>)

\* The condition of auth_password with the client called whatever the
\* configuration says: mutation of PasswordCondition.
PasswordConditionAlwaysCalls(user, password) == authenticate_password(user, password)

\* self.config.allow_password && authenticate_password(user, password).await?
PasswordCondition(user, password) ==
    IF allow_password THEN authenticate_password(user, password) ELSE NotAllowed

\* self.config.allow_publickey && authenticate_public_key(user, key).await?
PublickeyCondition(user, key) ==
    IF allow_publickey THEN authenticate_public_key(user, key) ELSE NotAllowed

\* A remove that removes nothing: mutation of MethodSetRemove.
MethodSetRemoveNothing(set, method) == set

\* MethodSet::remove.
MethodSetRemove(set, method) == set \ {method}

\* SshServer::new: the methods the configuration allows; SshSession::new
\* copies them.
ServerMethods ==
    (IF allow_password THEN {Password} ELSE {})
    \cup (IF allow_publickey THEN {PublicKey} ELSE {})

\* The session is still asking for authentication.
Authenticating == auth.kind \in {"none", "Reject"}

\* The body both handlers share: Accept if the condition is true, an error
\* or a panic of the client as it is, else the method removed and Reject
\* with the methods that remain.
Answering(method, decision) ==
    /\ auth_calls' = decision.calls
    /\ IF decision.kind = "true"
       THEN /\ auth' = Answer("Accept", method, {})
            /\ UNCHANGED methods
       ELSE IF decision.kind = "false"
       THEN /\ methods' = MethodSetRemove(methods, method)
            /\ auth' = Answer("Reject", method, methods')
       ELSE /\ auth' = Answer(decision.kind, method, {})
            /\ UNCHANGED methods
    /\ UNCHANGED <<vfs_map, cwd_path, session_vars, backend_vars, fs_vars, io_vars, other_vars,
                   channel_vars, client_vars, allow_password, allow_publickey,
                   directory, input, output>>

\* SshSession::auth_password.
AuthPassword(user, password) ==
    /\ Authenticating
    /\ Answering(Password, PasswordCondition(user, password))

\* SshSession::auth_publickey.
AuthPublickey(user, public_key) ==
    /\ Authenticating
    /\ Answering(PublicKey, PublickeyCondition(user, public_key))

InitAuth ==
    /\ vfs_map = {TheRoot}
    /\ cwd_path = <<"/">>
    /\ version = NoVersion
    /\ readdir_performed = {}
    /\ resp = NoResp
    /\ calls = <<>>
    /\ open_files = [b \in vfs_map |-> <<>>]
    /\ open_dirs = [b \in vfs_map |-> <<>>]
    /\ salts = 0
    /\ issued = <<>>
    /\ closed = {}
    /\ contents = [b \in vfs_map |-> <<>>]
    /\ positions = [b \in vfs_map |-> <<>>]
    /\ in_flight = <<>>
    /\ promised = contents
    /\ writes = 0
    /\ files = [b \in vfs_map |-> {}]
    /\ dirs = [b \in vfs_map |-> {}]
    /\ links = [b \in vfs_map |-> <<>>]
    /\ allow_password \in BOOLEAN
    /\ allow_publickey \in BOOLEAN
    /\ directory \in [Users -> Lookups]
    /\ methods = ServerMethods
    /\ auth = NoAnswer
    /\ auth_calls = <<>>
    /\ NoChannels
    /\ NoLookup
    /\ NoOthers
    /\ input = <<>>
    /\ output = <<>>

NextAuth ==
    \/ \E user \in Users, password \in Passwords : AuthPassword(user, password)
    \/ \E user \in Users, public_key \in Keys : AuthPublickey(user, public_key)

SpecAuth == InitAuth /\ [][NextAuth]_vars

\* C18: with password authentication disabled, auth_password answers every
\* user and password with Reject, removes Password from the session's
\* methods, hands back the methods that remain, and does not call the auth
\* client.
C18_DisabledPasswordRejected ==
    [][\A user \in Users, password \in Passwords :
          (~allow_password /\ AuthPassword(user, password))
          => /\ auth'.kind = "Reject"
             /\ methods' = methods \ {Password}
             /\ auth'.proceed_with_methods = methods'
             /\ auth_calls' = <<>>]_vars

\* A password was refused by a server that allows public keys only, and
\* the client was told to go on with PublicKey.
C18_Witness ==
    /\ ~allow_password
    /\ allow_publickey
    /\ auth = Answer("Reject", Password, {PublicKey})
    /\ methods = {PublicKey}
    /\ auth_calls = <<>>

\* C19: the session's methods only shrink; a Reject hands back the session's
\* methods without the method that was tried, so that no later Reject offers
\* it again; and a server that allows public keys only answers a rejected
\* key with no method to go on with.
C19_MethodsOnlyShrink ==
    [][/\ methods' \subseteq methods
       /\ auth'.kind = "Reject" =>
             /\ auth'.method \notin methods'
             /\ auth'.proceed_with_methods = methods'
             /\ (allow_publickey /\ ~allow_password /\ auth'.method = PublicKey)
                => auth'.proceed_with_methods = {}]_vars

\* A server that allows public keys only looked the user up, found another
\* key, and rejected with nothing to go on with.
C19_Witness ==
    /\ allow_publickey
    /\ ~allow_password
    /\ auth = Answer("Reject", PublicKey, {})
    /\ auth_calls = ClientCall("authenticate_public_key", "alice")
    /\ directory["alice"] = LookupSome({"k1"})
    /\ methods = {}

\* C20: with password authentication enabled, auth_password answers every
\* user and password with Accept or Reject.
C20_PasswordDecided ==
    (allow_password /\ auth.method = Password) => auth.kind \in {"Accept", "Reject"}

\* C21: a public-key attempt during which the auth client failed is
\* answered with Reject, and the session goes on asking for authentication.
C21_ClientFailureRejects ==
    (/\ auth.method = PublicKey
     /\ auth_calls # <<>>
     /\ directory[auth_calls[1].user].kind = "Err")
    => auth.kind = "Reject" /\ Authenticating

\* ------------------------------------------------------------ SSH channels

\* Most arguments of one exec command.
MaxArgs == 2

\* The channels a client opens, and the paths it asks hashes of: a file,
\* a path no mount matches, a directory, and a file in the directory.
ChannelIds == {1, 2}
ExecPaths ==
    {[abs |-> TRUE, segs |-> <<"a", "b">>],
     [abs |-> TRUE, segs |-> <<"b">>],
     [abs |-> TRUE, segs |-> <<"a", "a">>],
     [abs |-> TRUE, segs |-> <<"a", "a", "b">>]}
Arguments == UNION {[1..k -> ExecPaths] : k \in 0..MaxArgs}

\* The shell words of the commands a client sends: none, a command that
\* is not known, and the two hash commands with their arguments.
Commands ==
    {<<>>, <<"ls">>}
    \cup {<<c>> \o arguments : c \in {"md5sum", "sha1sum"}, arguments \in Arguments}

ChannelMsg(msg, channel, status) == [msg |-> msg, channel |-> channel, status |-> status]

\* LocalDir::hash: the digest of a regular file's bytes; the bytes stand
\* for their digest. Opening or reading anything else fails.
Hash(b, rel, algorithm) ==
    LET at == Place(rel)
        to == IF at.some THEN Resolve(b, at.path, Cardinality(DOMAIN links[b])) ELSE NoPath
    IN IF to.some /\ to.path \in files[b]
       THEN [ok |-> TRUE, digest |-> <<algorithm, Content(b, to.path)>>]
       ELSE [ok |-> FALSE, digest |-> <<>>]

\* exec_md5sum and exec_sha1sum: the loop over the arguments; the ? after
\* the hash ends the run at the first argument whose hashing fails.
RECURSIVE ExecHash(_, _, _, _)
ExecHash(algorithm, arguments, order, lines) ==
    IF arguments = <<>> THEN [ok |-> TRUE, lines |-> lines]
    ELSE LET argument == Head(arguments)
             pm == PathMatch(argument, order)
         IN IF pm.some
            THEN LET hash == Hash(pm.vfs, pm.relative_path, algorithm) IN
                 IF hash.ok
                 THEN ExecHash(algorithm, Tail(arguments), order,
                               Append(lines, [digest |-> hash.digest, path |-> argument]))
                 ELSE [ok |-> FALSE, lines |-> lines]
            ELSE ExecHash(algorithm, Tail(arguments), order, lines)

\* SshSession::exec_command: the future of a hash command, or None.
exec_command(data, order) ==
    IF data # <<>> /\ Head(data) \in {"md5sum", "sha1sum"}
    THEN [some |-> TRUE, result |-> ExecHash(Head(data), Tail(data), order, <<>>)]
    ELSE [some |-> FALSE, result |-> [ok |-> FALSE, lines |-> <<>>]]

\* The SSH session serves requests until a handler returns an error.
Serving == handler # "Err"

\* A channel the client may send requests on: it opened it and no
\* channel_eof closed it.
Requestable(channel) == channel \in DOMAIN channels /\ channels[channel] # "closed"

ChannelFrame ==
    UNCHANGED <<vfs_map, cwd_path, session_vars, backend_vars, fs_vars, io_vars, other_vars,
                auth_vars, client_vars>>

\* SshSession::channel_open_session.
ChannelOpenSession(channel) ==
    /\ Serving
    /\ channel \notin DOMAIN channels
    /\ clients' = clients \cup {channel}
    /\ channels' = Insert(channels, channel, "open")
    /\ sent' = <<>>
    /\ handler' = "Ok"
    /\ UNCHANGED <<input, output>>
    /\ ChannelFrame

\* SshSession::channel_eof.
ChannelEof(channel) ==
    /\ Serving
    /\ Requestable(channel)
    /\ clients' = clients \ {channel}
    /\ channels' = [channels EXCEPT ![channel] = "closed"]
    /\ sent' = <<ChannelMsg("close", channel, 0)>>
    /\ handler' = "Ok"
    /\ UNCHANGED <<input, output>>
    /\ ChannelFrame

\* SshSession::pty_request and SshSession::shell_request.
PtyOrShellRequest(channel) ==
    /\ Serving
    /\ Requestable(channel)
    /\ sent' = <<ChannelMsg("channel_failure", channel, 0)>>
    /\ handler' = "Ok"
    /\ UNCHANGED <<clients, channels, input, output>>
    /\ ChannelFrame

\* SshSession::get_channel: the channel is removed from the table, or the
\* error LostChannel.
get_channel(channel) ==
    IF channel \in clients THEN [ok |-> TRUE, clients |-> clients \ {channel}]
    ELSE [ok |-> FALSE, clients |-> clients]

\* SshSession::exec_request.
ExecRequest(channel, data, order) ==
    /\ Serving
    /\ Requestable(channel)
    /\ input' = data
    /\ LET got == get_channel(channel) IN
       IF ~got.ok
       THEN /\ handler' = "Err"
            /\ sent' = <<>>
            /\ output' = <<>>
            /\ UNCHANGED <<clients, channels>>
       ELSE LET future == exec_command(data, order) IN
            /\ clients' = got.clients
            /\ handler' = "Ok"
            /\ IF future.some
               THEN /\ sent' = <<ChannelMsg("channel_success", channel, 0),
                                  ChannelMsg("exit_status", channel,
                                             IF future.result.ok THEN 0 ELSE 1)>>
                    /\ output' = future.result
                    /\ channels' = [channels EXCEPT ![channel] = "taken"]
               ELSE /\ sent' = <<ChannelMsg("channel_failure", channel, 0)>>
                    /\ output' = <<>>
                    /\ UNCHANGED channels
    /\ ChannelFrame

\* SshSession::subsystem_request.
SubsystemRequest(channel, name) ==
    /\ Serving
    /\ Requestable(channel)
    /\ IF name = "sftp"
       THEN LET got == get_channel(channel) IN
            IF ~got.ok
            THEN /\ handler' = "Err"
                 /\ sent' = <<>>
                 /\ UNCHANGED <<clients, channels>>
            ELSE /\ clients' = got.clients
                 /\ handler' = "Ok"
                 /\ sent' = <<ChannelMsg("channel_success", channel, 0)>>
                 /\ channels' = [channels EXCEPT ![channel] = "taken"]
       ELSE /\ handler' = "Ok"
            /\ sent' = <<ChannelMsg("channel_failure", channel, 0)>>
            /\ UNCHANGED <<clients, channels>>
    /\ UNCHANGED <<input, output>>
    /\ ChannelFrame

\* One mount /a over the host tree; nobody is authenticating any more.
InitChannel ==
    /\ vfs_map = {<<"/", "a">>}
    /\ cwd_path = <<"/">>
    /\ version = NoVersion
    /\ readdir_performed = {}
    /\ resp = NoResp
    /\ calls = <<>>
    /\ open_files = [b \in vfs_map |-> <<>>]
    /\ open_dirs = [b \in vfs_map |-> <<>>]
    /\ salts = 0
    /\ issued = <<>>
    /\ closed = {}
    /\ files = [b \in vfs_map |-> HostTree.files]
    /\ dirs = [b \in vfs_map |-> HostTree.dirs]
    /\ links = [b \in vfs_map |-> HostTree.links]
    /\ contents = [b \in vfs_map |-> (<<"b">> :> FileBytes)]
    /\ positions = [b \in vfs_map |-> <<>>]
    /\ in_flight = <<>>
    /\ promised = contents
    /\ writes = 0
    /\ NoAuth
    /\ NoChannels
    /\ NoLookup
    /\ NoOthers
    /\ input = <<>>
    /\ output = <<>>

NextChannel ==
    \/ \E channel \in ChannelIds : ChannelOpenSession(channel)
    \/ \E channel \in ChannelIds : ChannelEof(channel)
    \/ \E channel \in ChannelIds : PtyOrShellRequest(channel)
    \/ \E channel \in ChannelIds, data \in Commands, order \in Orders(vfs_map) :
          ExecRequest(channel, data, order)
    \/ \E channel \in ChannelIds, name \in {"sftp", "shell"} :
          SubsystemRequest(channel, name)

SpecChannel == InitChannel /\ [][NextChannel]_vars

\* C22: a channel the client opened is in the channel table exactly until
\* an accepted subsystem request for sftp or an exec of a hash command takes
\* it (or the client ends it): a request answered channel_failure leaves it
\* in the table.
C22_ChannelKeptUntilTaken ==
    \A channel \in DOMAIN channels : channels[channel] = "open" <=> channel \in clients

\* The first shell word names one of the two hash commands.
Recognized(data) == data # <<>> /\ Head(data) \in {"md5sum", "sha1sum"}

\* C23: an exec request on a channel the client has open is answered
\* channel_success and then one exit status, 0 if the hash run succeeded
\* and 1 if it failed, when its first word is md5sum or sha1sum, and
\* channel_failure alone otherwise; pty and shell requests are answered
\* channel_failure.
C23_ExecAnswers ==
    [][\A channel \in ChannelIds :
          /\ \A data \in Commands, order \in Orders(vfs_map) :
                ExecRequest(channel, data, order) =>
                   IF Recognized(data)
                   THEN /\ Len(sent') = 2
                        /\ sent'[1] = ChannelMsg("channel_success", channel, 0)
                        /\ sent'[2].msg = "exit_status"
                        /\ sent'[2].status = IF output'.ok THEN 0 ELSE 1
                   ELSE sent' = <<ChannelMsg("channel_failure", channel, 0)>>
          /\ PtyOrShellRequest(channel) =>
                sent' = <<ChannelMsg("channel_failure", channel, 0)>>]_vars

\* An argument that is routed to a backend where its hashing succeeds.
Hashable(argument) ==
    /\ Routed(argument).some
    /\ Hash(Routed(argument).vfs, Routed(argument).relative_path, "md5sum").ok

\* C24: a hash command writes one line for every argument that is routed
\* and can be hashed, in the order of the arguments and with the argument
\* as it was given, and none for the other arguments, which do not end the
\* run.
C24_EveryArgumentProcessed ==
    (handler = "Ok" /\ Recognized(input)) =>
        LET wanted == SelectSeq(Tail(input), LAMBDA argument : Hashable(argument)) IN
        /\ Len(output.lines) = Len(wanted)
        /\ \A i \in DOMAIN wanted : output.lines[i].path = wanted[i]

\* -------------------------------------------------------------- auth client

\* The seconds a cached record lives.
CacheTtl == 300

\* What the directory holds for a user name: no entry, one entry, one
\* entry with a key that does not parse, more than one entry.
LdapEntries == {"none", "one", "one_bad_key", "many"}

\* How pool.get() ends; NoRuntimeSpecified cannot happen, the pools are
\* built with a runtime.
PoolOutcomes == {"Ok", "Timeout", "Backend", "PostCreateHook", "Closed"}

\* format!("ldap_cache_user_{username}").
CacheKey(username) == <<"ldap_cache_user_", username>>

\* The record of a user, built from the one entry found.
UserInfo(username) == [username |-> username]

Op(op, outcome) == [op |-> op, outcome |-> outcome]

\* get_user returns: the connections its frames own are dropped.
Return(r) ==
    /\ result' = r
    /\ pc' = NotCalling
    /\ held' = {}

At(place) == pc.at = place

Goto(place) == pc' = [pc EXCEPT !.at = place]

LookupFrame ==
    UNCHANGED <<vfs_map, cwd_path, session_vars, backend_vars, fs_vars, io_vars, other_vars,
                auth_vars, channel_vars, redis_pool, ldap, input, output>>

\* AuthClient::get_user is called.
GetUser(username) ==
    /\ At("idle")
    /\ pc' = [at |-> "read_user_cache", username |-> username]
    /\ ops' = <<>>
    /\ result' = NoResult
    /\ UNCHANGED <<cache, held>>
    /\ LookupFrame

\* The match on redis_pool.get() of read_user_cache and write_user_cache:
\* the error it returns, or "" when it goes on.
RedisPoolError(outcome) ==
    CASE outcome = "Timeout" -> "RedisConnectionTimeout"
      [] outcome = "Backend" -> "RedisError"
      [] outcome = "PostCreateHook" -> "LdapHookError"
      [] OTHER -> ""

\* The match on ldap_pool.get() of get_user.
LdapPoolError(outcome) ==
    CASE outcome = "Timeout" -> "RedisConnectionTimeout"
      [] outcome = "Backend" -> "LdapError"
      [] outcome = "PostCreateHook" -> "LdapHookError"
      [] outcome = "Closed" -> "LdapPoolClosed"
      [] OTHER -> ""

\* read_user_cache: redis_pool.get().
ReadCachePoolGet(outcome) ==
    /\ At("read_user_cache")
    /\ IF ~redis_pool
       THEN /\ outcome = "Ok"
            /\ Goto("ldap_pool_get")
            /\ UNCHANGED <<ops, held, result>>
       ELSE /\ ops' = Append(ops, Op("redis_pool.get", outcome))
            /\ IF outcome = "Ok"
               THEN Goto("cache_get") /\ held' = held \cup {"redis"} /\ UNCHANGED result
               ELSE IF outcome = "Closed"
               THEN Goto("ldap_pool_get") /\ UNCHANGED <<held, result>>
               ELSE Return(Returned("Err", RedisPoolError(outcome)))
    /\ UNCHANGED cache
    /\ LookupFrame

\* A cache that never has the key: mutation of CacheHit.
CacheNeverHits(key) == FALSE

\* conn.get(cache_key) found a record.
CacheHit(key) == key \in DOMAIN cache

\* read_user_cache: conn.get(cache_key); the connection is dropped when
\* read_user_cache returns.
CacheGet(ok) ==
    /\ At("cache_get")
    /\ ops' = Append(ops, Op("GET", IF ok THEN "Ok" ELSE "Err"))
    /\ IF ~ok THEN Return(Returned("Err", "RedisError"))
       ELSE IF CacheHit(CacheKey(pc.username))
       THEN Return(Returned("Some", cache[CacheKey(pc.username)].user))
       ELSE Goto("ldap_pool_get") /\ held' = held \ {"redis"} /\ UNCHANGED result
    /\ UNCHANGED cache
    /\ LookupFrame

\* get_user: ldap_pool.get().
LdapPoolGet(outcome) ==
    /\ At("ldap_pool_get")
    /\ ops' = Append(ops, Op("ldap_pool.get", outcome))
    /\ IF outcome = "Ok"
       THEN Goto("simple_bind") /\ held' = held \cup {"ldap"} /\ UNCHANGED result
       ELSE Return(Returned("Err", LdapPoolError(outcome)))
    /\ UNCHANGED cache
    /\ LookupFrame

\* get_user: conn.simple_bind.
SimpleBind(ok) ==
    /\ At("simple_bind")
    /\ ops' = Append(ops, Op("simple_bind", IF ok THEN "Ok" ELSE "Err"))
    /\ IF ok THEN Goto("search") /\ UNCHANGED <<held, result>>
       ELSE Return(Returned("Err", "LdapError"))
    /\ UNCHANGED cache
    /\ LookupFrame

\* More than one entry taken for one: mutation of Found.
FoundFirst(entries) ==
    CASE entries = "none" -> Returned("None", "")
      [] entries = "one_bad_key" -> Returned("Err", "SshKeyError")
      [] OTHER -> Returned("write", "")

\* The match on entries.len(): what get_user returns, or "write" when it
\* goes on to write the record to the cache.
Found(entries) ==
    CASE entries = "none" -> Returned("None", "")
      [] entries = "one" -> Returned("write", "")
      [] entries = "one_bad_key" -> Returned("Err", "SshKeyError")
      [] OTHER -> Returned("Err", "MultipleUsersFound")

\* get_user: conn.search and the match on the number of entries; the
\* directory connection stays in scope until get_user returns.
Search(ok) ==
    /\ At("search")
    /\ ops' = Append(ops, Op("search", IF ok THEN "Ok" ELSE "Err"))
    /\ IF ~ok THEN Return(Returned("Err", "LdapError"))
       ELSE LET found == Found(ldap[pc.username]) IN
            IF found.kind = "write"
            THEN Goto("write_user_cache") /\ UNCHANGED <<held, result>>
            ELSE Return(found)
    /\ UNCHANGED cache
    /\ LookupFrame

\* write_user_cache: redis_pool.get().
WriteCachePoolGet(outcome) ==
    /\ At("write_user_cache")
    /\ IF ~redis_pool
       THEN /\ outcome = "Ok"
            /\ Return(Returned("Some", UserInfo(pc.username)))
            /\ UNCHANGED ops
       ELSE /\ ops' = Append(ops, Op("redis_pool.get", outcome))
            /\ IF outcome = "Ok"
               THEN Goto("cache_set") /\ held' = held \cup {"redis"} /\ UNCHANGED result
               ELSE IF outcome = "Closed"
               THEN Return(Returned("Some", UserInfo(pc.username)))
               ELSE Return(Returned("Err", RedisPoolError(outcome)))
    /\ UNCHANGED cache
    /\ LookupFrame

\* write_user_cache: conn.set(cache_key, user).
CacheSet(ok) ==
    /\ At("cache_set")
    /\ ops' = Append(ops, Op("SET", IF ok THEN "Ok" ELSE "Err"))
    /\ IF ok
       THEN /\ cache' = Insert(cache, CacheKey(pc.username),
                               [user |-> UserInfo(pc.username), ttl |-> 0])
            /\ Goto("cache_expire")
            /\ UNCHANGED <<held, result>>
       ELSE /\ Return(Returned("Err", "RedisError"))
            /\ UNCHANGED cache
    /\ LookupFrame

\* write_user_cache: conn.expire(cache_key, 5 * 60).
CacheExpire(ok) ==
    /\ At("cache_expire")
    /\ ops' = Append(ops, Op("EXPIRE", IF ok THEN "Ok" ELSE "Err"))
    /\ IF ok
       THEN /\ cache' = [cache EXCEPT ![CacheKey(pc.username)].ttl = CacheTtl]
            /\ Return(Returned("Some", UserInfo(pc.username)))
       ELSE /\ Return(Returned("Err", "RedisError"))
            /\ UNCHANGED cache
    /\ LookupFrame

\* The future of get_user is dropped at an await: the session that was
\* authenticating went away.
Cancelled ==
    /\ ~At("idle")
    /\ Return(Returned("cancelled", ""))
    /\ UNCHANGED <<cache, ops>>
    /\ LookupFrame

\* The cache drops a record whose time to live has run out.
Expired(key) ==
    /\ key \in DOMAIN cache
    /\ cache[key].ttl > 0
    /\ cache' = Remove(cache, key)
    /\ UNCHANGED <<held, pc, ops, result>>
    /\ LookupFrame

\* An auth client with or without a cache, the cache empty, over a
\* directory that holds any of the four cases for each user name.
InitLookup ==
    /\ vfs_map = {TheRoot}
    /\ cwd_path = <<"/">>
    /\ version = NoVersion
    /\ readdir_performed = {}
    /\ resp = NoResp
    /\ calls = <<>>
    /\ open_files = [b \in vfs_map |-> <<>>]
    /\ open_dirs = [b \in vfs_map |-> <<>>]
    /\ salts = 0
    /\ issued = <<>>
    /\ closed = {}
    /\ files = [b \in vfs_map |-> {}]
    /\ dirs = [b \in vfs_map |-> {}]
    /\ links = [b \in vfs_map |-> <<>>]
    /\ contents = [b \in vfs_map |-> <<>>]
    /\ positions = [b \in vfs_map |-> <<>>]
    /\ in_flight = <<>>
    /\ promised = contents
    /\ writes = 0
    /\ NoAuth
    /\ NoChannels
    /\ redis_pool \in BOOLEAN
    /\ ldap \in [Users -> LdapEntries]
    /\ cache = <<>>
    /\ held = {}
    /\ pc = NotCalling
    /\ ops = <<>>
    /\ result = NoResult
    /\ NoOthers
    /\ input = <<>>
    /\ output = <<>>

NextLookup ==
    \/ \E username \in Users : GetUser(username)
    \/ \E outcome \in PoolOutcomes : ReadCachePoolGet(outcome)
    \/ \E ok \in BOOLEAN : CacheGet(ok)
    \/ \E outcome \in PoolOutcomes : LdapPoolGet(outcome)
    \/ \E ok \in BOOLEAN : SimpleBind(ok)
    \/ \E ok \in BOOLEAN : Search(ok)
    \/ \E outcome \in PoolOutcomes : WriteCachePoolGet(outcome)
    \/ \E ok \in BOOLEAN : CacheSet(ok)
    \/ \E ok \in BOOLEAN : CacheExpire(ok)
    \/ Cancelled
    \/ \E username \in Users : Expired(CacheKey(username))

SpecLookup == InitLookup /\ [][NextLookup]_vars

\* The operations on the directory and its pool.
LdapOps == {"ldap_pool.get", "simple_bind", "search"}

\* get_user returns to its caller in this step.
Returns == ~At("idle") /\ pc'.at = "idle" /\ result'.kind # "cancelled"

\* C25: with a cache configured the first operation of get_user is on the
\* cache, under the key ldap_cache_user_<username>; a record found there is
\* returned with no operation on the directory or its pool; with no cache
\* configured every call that returns has acquired a directory connection
\* and touched no cache.
C25_CacheFirst ==
    [][/\ (redis_pool /\ ops' # <<>>) => ops'[1].op = "redis_pool.get"
       /\ (CacheGet(TRUE) /\ <<"ldap_cache_user_", pc.username>> \in DOMAIN cache)
          => /\ Returns
             /\ result' =
                   Returned("Some", cache[<<"ldap_cache_user_", pc.username>>].user)
             /\ \A i \in DOMAIN ops' : ops'[i].op \notin LdapOps
       /\ (~redis_pool /\ Returns)
          => /\ ops' # <<>>
             /\ ops'[1].op = "ldap_pool.get"
             /\ \A i \in DOMAIN ops' : ops'[i].op \in LdapOps]_vars

\* A second lookup of alice found the record the first one cached and
\* returned it after two operations, both on the cache.
C25_Witness ==
    /\ redis_pool
    /\ result = Returned("Some", UserInfo("alice"))
    /\ ops = <<Op("redis_pool.get", "Ok"), Op("GET", "Ok")>>
    /\ At("idle")

\* get_user is in write_user_cache, having found exactly one entry.
Writing == pc.at \in {"write_user_cache", "cache_set", "cache_expire"}

\* The last operation of the call that is returning.
LastOp == ops'[Len(ops')]

\* The cache holds the record of the user under the user's key.
Cached(c, username) ==
    /\ <<"ldap_cache_user_", username>> \in DOMAIN c
    /\ c[<<"ldap_cache_user_", username>>].user = UserInfo(username)

\* The number of entries decides what a successful search does next:
\* none returns absent, more than one fails with MultipleUsersFound, and
\* neither writes to the cache.
ZeroOrMany ==
    Search(TRUE) =>
        /\ cache' = cache
        /\ ldap[pc.username] = "none" => Returns /\ result' = Returned("None", "")
        /\ ldap[pc.username] = "many"
           => Returns /\ result' = Returned("Err", "MultipleUsersFound")

\* C26: on a cache miss zero entries return absent and more than one fail
\* with MultipleUsersFound, writing nothing; exactly one entry whose keys
\* parse is written to the cache and returned when the cache accepts the
\* write, is returned unwritten when there is no cache or its pool is
\* closed, and otherwise the call fails with the error of the cache; an
\* entry with a key that does not parse fails with SshKeyError.
C26_DecidedByEntries ==
    [][/\ ZeroOrMany
       /\ Search(TRUE) /\ ldap[pc.username] = "one"
          => pc'.at = "write_user_cache" /\ result' = result
       /\ Search(TRUE) /\ ldap[pc.username] = "one_bad_key"
          => Returns /\ result' = Returned("Err", "SshKeyError")
       /\ Writing /\ Returns
          => IF ~redis_pool
             THEN result' = Returned("Some", UserInfo(pc.username)) /\ cache' = cache
             ELSE CASE LastOp = Op("EXPIRE", "Ok")
                         -> /\ result' = Returned("Some", UserInfo(pc.username))
                            /\ Cached(cache', pc.username)
                    [] LastOp = Op("redis_pool.get", "Closed")
                         -> /\ result' = Returned("Some", UserInfo(pc.username))
                            /\ cache' = cache
                    [] OTHER
                         -> /\ result'.kind = "Err"
                            /\ result'.value \in {"RedisError", "RedisConnectionTimeout",
                                                  "LdapHookError"}
       /\ (\E k \in DOMAIN cache' : k \notin DOMAIN cache \/ cache'[k] # cache[k])
          => Writing /\ ldap[pc.username] = "one"]_vars

\* The statement without the failures of the cache: a call that found
\* exactly one entry returns the record, and the record is in the cache.
C26_OneEntryReturnedAndCached ==
    [][/\ ZeroOrMany
       /\ Writing /\ Returns
          => /\ result' = Returned("Some", UserInfo(pc.username))
             /\ Cached(cache', pc.username)]_vars

\* A lookup of alice missed the cache, found one entry, wrote it with its
\* time to live and returned it.
C26_Witness ==
    /\ At("idle")
    /\ result = Returned("Some", UserInfo("alice"))
    /\ ldap["alice"] = "one"
    /\ Len(ops) = 8
    /\ ops[2] = Op("GET", "Ok")
    /\ ops[5] = Op("search", "Ok")
    /\ ops[8] = Op("EXPIRE", "Ok")
    /\ Cached(cache, "alice")

\* C27: whenever no write is in progress, every record in the cache
\* carries the time to live of 300 s.
C27_EveryRecordExpires ==
    ~Writing => \A k \in DOMAIN cache : cache[k].ttl = 300

\* C28: a caller holds at most one pooled connection at a time, counting
\* the connections of the cache pool and of the directory pool together.
C28_OneConnectionAtATime == Cardinality(held) <= 1

\* The error AuthError has for a failed acquisition from each pool.
PoolErrorOf(pool, outcome) ==
    CASE outcome = "Timeout"
           -> IF pool = "ldap" THEN "LdapConnectionTimeout" ELSE "RedisConnectionTimeout"
      [] outcome = "Backend" -> IF pool = "ldap" THEN "LdapError" ELSE "RedisError"
      [] outcome = "PostCreateHook" -> "LdapHookError"
      [] OTHER -> IF pool = "ldap" THEN "LdapPoolClosed" ELSE "RedisPoolClosed"

\* C29: every failed pool.get() of either pool makes get_user return the
\* error of that pool for that outcome: never a success, never the error
\* of the other pool.
C29_PoolFailuresSurfaced ==
    [][\A outcome \in PoolOutcomes \ {"Ok"} :
          /\ LdapPoolGet(outcome)
             => result' = Returned("Err", PoolErrorOf("ldap", outcome))
          /\ ReadCachePoolGet(outcome) \/ WriteCachePoolGet(outcome)
             => result' = Returned("Err", PoolErrorOf("redis", outcome))]_vars

\* ---------------------------------------------------------------- Metadata

\* Option<T>.
None == [some |-> FALSE]
Some(v) == [some |-> TRUE, value |-> v]

\* A count of seconds in 64 bits, as four digits of sixteen bits, the
\* lowest first; a u32 is the two lowest.
Zero64 == <<0, 0, 0, 0>>
Magnitudes ==
    {Zero64,
     <<1, 0, 0, 0>>,
     <<65535, 65535, 0, 0>>,
     <<0, 0, 1, 0>>,
     <<1, 0, 1, 0>>,
     <<65535, 65535, 65535, 32767>>}

\* The i64 seconds of st_atime and st_mtime.
Stamps ==
    [neg : {FALSE}, mag : Magnitudes]
        \cup [neg : {TRUE}, mag : {<<1, 0, 0, 0>>, <<0, 0, 1, 0>>}]

\* to_system_time: the SystemTime that many whole seconds after or before
\* UNIX_EPOCH.
to_system_time(x) == [before |-> x.neg, secs |-> x.mag]

\* u64::try_into::<u32>() replaced by the cast `as u32`.
TruncateU32(secs) == Some(<<secs[1], secs[2]>>)

\* u64::try_into::<u32>(): the value when it fits, an error otherwise.
TryIntoU32(secs) ==
    IF secs[3] = 0 /\ secs[4] = 0 THEN Some(<<secs[1], secs[2]>>) ELSE None

\* from_system_time: duration_since(UNIX_EPOCH) fails for a time before
\* the epoch; as_secs() of the duration is converted with try_into.
from_system_time(system_time) ==
    IF system_time.before /\ system_time.secs # Zero64
    THEN None
    ELSE TryIntoU32(system_time.secs)

\* Option::and_then(from_system_time).
AndThenFromSystemTime(opt) == IF opt.some THEN from_system_time(opt.value) ELSE None

RECURSIVE BitOr(_, _)
BitOr(a, b) ==
    IF a = 0 THEN b
    ELSE IF b = 0 THEN a
    ELSE (IF a % 2 = 1 \/ b % 2 = 1 THEN 1 ELSE 0) + 2 * BitOr(a \div 2, b \div 2)

\* Metadata::file_attrs; 0o004 << 12 is 16384 and 0o010 << 12 is 32768.
file_attrs(self, file_mode, dir_mode) ==
    [size |-> self.size,
     atime |-> AndThenFromSystemTime(self.atime),
     mtime |-> AndThenFromSystemTime(self.mtime),
     permissions |-> IF self.is_directory
                     THEN Some(BitOr(16384, dir_mode))
                     ELSE Some(BitOr(32768, file_mode))]

\* Metadata as From<cap_std::fs::Metadata> and Metadata::default() build
\* it: the times absent, or made by to_system_time.
OptionalTimes == {None} \cup {Some(to_system_time(x)) : x \in Stamps}
Metadatas ==
    [size : {None, Some(1)}, atime : OptionalTimes, mtime : OptionalTimes,
     is_directory : BOOLEAN]

\* default_file_mode and default_dir_mode of the configuration, any u32:
\* 0o644, 0o600 and 0o40644; 0o755 and 0o100755.
FileModes == {420, 384, 16804}
DirModes == {493, 33261}

InitAttrs ==
    /\ vfs_map = {<<"/">>}
    /\ cwd_path = <<"/">>
    /\ input \in Metadatas
    /\ output = <<>>
    /\ Idle

FileAttrs(file_mode, dir_mode) ==
    /\ output = <<>>
    /\ output' = file_attrs(input, file_mode, dir_mode)
    /\ UNCHANGED <<vfs_map, cwd_path, input>>
    /\ Untouched

NextAttrs == \E file_mode \in FileModes, dir_mode \in DirModes : FileAttrs(file_mode, dir_mode)

SpecAttrs == InitAttrs /\ [][NextAttrs]_vars

\* A time at or after the epoch whose count of seconds is below 2^32.
InRange(t) == ~t.before /\ t.secs[3] = 0 /\ t.secs[4] = 0

\* What a time field must serialize to: its count of seconds when the
\* time is in range, nothing otherwise.
Serialized(opt, field) ==
    IF opt.some /\ InRange(opt.value)
    THEN field.some /\ <<field.value[1], field.value[2], 0, 0>> = opt.value.secs
    ELSE ~field.some

\* C30: file_attrs gives atime and mtime as the whole seconds since the
\* epoch in a u32: a time before the epoch or 2^32 seconds or more after
\* it gives an absent field, never a wrapped or truncated value, and a
\* time in [0, 2^32) seconds gives exactly its count of seconds.
C30_TimesDroppedNotTruncated ==
    output # <<>> =>
        /\ Serialized(input.atime, output.atime)
        /\ Serialized(input.mtime, output.mtime)

\* file_attrs dropped an atime of 2^32 seconds and kept an mtime of
\* 2^32 - 1 seconds.
C30_Witness ==
    /\ output # <<>>
    /\ input.atime = Some([before |-> FALSE, secs |-> <<0, 0, 1, 0>>])
    /\ input.mtime = Some([before |-> FALSE, secs |-> <<65535, 65535, 0, 0>>])
    /\ output.atime = None
    /\ output.mtime = Some(<<65535, 65535>>)

\* ----------------------------------------------------------------- SETSTAT

\* The root of the backend holds the file b, the directory a and the
\* symlink l to b; the inodes of b and a are looked at.
SetstatTree == [files |-> {<<"b">>}, dirs |-> {<<"a">>}, links |-> (<<"l">> :> <<"b">>)]
Inode(atime, mtime) ==
    [atime |-> atime, mtime |-> mtime, permissions |-> 420, uid |-> 1000, gid |-> 1000]
SetstatPaths ==
    {[abs |-> TRUE, segs |-> <<"b">>], [abs |-> TRUE, segs |-> <<"l">>],
     [abs |-> TRUE, segs |-> <<"a">>], [abs |-> TRUE, segs |-> <<"x">>]}

InitSetstat ==
    /\ vfs_map = {TheRoot}
    /\ cwd_path = <<"/">>
    /\ version = NoVersion
    /\ readdir_performed = {}
    /\ resp = NoResp
    /\ calls = <<>>
    /\ open_files = [b \in vfs_map |-> <<>>]
    /\ open_dirs = [b \in vfs_map |-> <<>>]
    /\ salts = 0
    /\ issued = <<>>
    /\ closed = {}
    /\ files = [b \in vfs_map |-> SetstatTree.files]
    /\ dirs = [b \in vfs_map |-> SetstatTree.dirs]
    /\ links = [b \in vfs_map |-> SetstatTree.links]
    /\ contents = [b \in vfs_map |-> (<<"b">> :> <<1, 2>>)]
    /\ positions = [b \in vfs_map |-> <<>>]
    /\ in_flight = <<>>
    /\ promised = contents
    /\ writes = 0
    /\ NoAuth
    /\ NoChannels
    /\ NoLookup
    /\ inodes = (<<TheRoot, <<"b">>>> :> Inode(1, 2)) @@ (<<TheRoot, <<"a">>>> :> Inode(3, 4))
    /\ parked = <<>>
    /\ session = 1
    /\ input = <<>>
    /\ output = <<>>

NextSetstat ==
    \/ \E raw \in {[abs |-> TRUE, segs |-> <<"b">>], [abs |-> TRUE, segs |-> <<"l">>]},
          order \in Orders(vfs_map) : salts = 0 /\ SftpOpen(raw, ReadOnly, order)
    \/ \E order \in Orders(vfs_map) :
          salts = 0 /\ SftpOpenDir([abs |-> TRUE, segs |-> <<"a">>], order)
    \/ \E raw \in SetstatPaths, attrs \in SetstatRequests, order \in Orders(vfs_map) :
          SftpSetstat(raw, attrs, order)
    \/ \E hstr \in FileClientHandles, attrs \in SetstatRequests, order \in Orders(vfs_map) :
          SftpFsetstat(hstr, attrs, order)

SpecSetstat == InitSetstat /\ [][NextSetstat]_vars

\* The handler at work in this step is setstat or fsetstat.
Setting == resp'.op \in {"setstat", "fsetstat"} /\ <<resp, calls, inodes>>' # <<resp, calls, inodes>>

\* The inodes this step changed.
Touched == {k \in DOMAIN inodes : inodes'[k] # inodes[k]}

\* C31: a SETSTAT or FSETSTAT changes nothing but the access and
\* modification time of its one target: the tree, the bytes, the
\* permissions and the owner stay, a time the request carries is the time
\* of the target afterwards when the request is answered Ok, and a time
\* it does not carry stays what it was.
C31_OnlyTimesChange ==
    [][Setting =>
          /\ UNCHANGED <<files, dirs, links, contents>>
          /\ DOMAIN inodes' = DOMAIN inodes
          /\ Cardinality(Touched) <= 1
          /\ \A k \in DOMAIN inodes :
                /\ inodes'[k].permissions = inodes[k].permissions
                /\ inodes'[k].uid = inodes[k].uid
                /\ inodes'[k].gid = inodes[k].gid
          /\ \A k \in Touched :
                /\ resp'.status = "Ok"
                /\ LET atime == calls'[1].args[2]
                       mtime == calls'[1].args[3]
                   IN /\ inodes'[k].atime = IF atime.some THEN atime.value ELSE inodes[k].atime
                      /\ inodes'[k].mtime = IF mtime.some THEN mtime.value ELSE inodes[k].mtime]_vars

\* An FSETSTAT that carried an mtime and no atime was answered Ok: the file b has the new mtime and its old atime.
C31_Witness ==
    /\ resp = [Resp("fsetstat", "Ok") EXCEPT !.op = "fsetstat"]
    /\ calls # <<>>
    /\ ~calls[1].args[2].some
    /\ calls[1].args[3] = Carried(7)
    /\ inodes[<<TheRoot, <<"b">>>>] = Inode(1, 7)
    /\ Len(contents[TheRoot][<<"b">>]) = 2

\* ------------------------------------------------------------ VfsSetBuilder

\* How many mounts a run adds to a builder.
MaxMounts == 2

\* The host directories a mount may name; LocalDir::new fails to open the
\* last one.
HostDirs == {"/srv/a", "/srv/b", "/missing"}
Opens(root_path) == root_path # "/missing"

\* VfsSetBuilder::new.
NewBuilder == [ok |-> TRUE, vfs_map |-> <<>>]

\* VfsSetBuilder::local_dir: HashMap::insert under the prefix, with the
\* count of its components; the error of LocalDir::new is returned and the
\* builder is gone.
local_dir(self, vfs_root, root_path) ==
    IF Opens(root_path)
    THEN [ok |-> TRUE,
          vfs_map |-> Insert(self.vfs_map, vfs_root,
                             [num_components |-> NumComponents(vfs_root),
                              root_path |-> root_path])]
    ELSE [ok |-> FALSE, vfs_map |-> <<>>]

InitBuilder ==
    /\ vfs_map = {TheRoot}
    /\ cwd_path = <<"/">>
    /\ input = <<>>
    /\ output = NewBuilder
    /\ Idle

\* One more call of local_dir on the builder; input keeps the calls.
LocalDirCall(vfs_root, root_path) ==
    /\ output.ok
    /\ Len(input) < MaxMounts
    /\ input' = Append(input, [vfs_root |-> vfs_root, root_path |-> root_path])
    /\ output' = local_dir(output, vfs_root, root_path)
    /\ UNCHANGED <<vfs_map, cwd_path>>
    /\ Untouched

NextBuilder == \E vfs_root \in Prefixes, root_path \in HostDirs : LocalDirCall(vfs_root, root_path)

SpecBuilder == InitBuilder /\ [][NextBuilder]_vars

\* C32: a builder that took every call holds every mount it was given: a
\* call with a prefix that is already there is refused, so no mount is
\* dropped or replaced.
C32_DuplicatesRejected ==
    output.ok =>
        /\ \A i \in DOMAIN input :
              /\ input[i].vfs_root \in DOMAIN output.vfs_map
              /\ output.vfs_map[input[i].vfs_root].root_path = input[i].root_path
        /\ \A i, j \in DOMAIN input : input[i].vfs_root = input[j].vfs_root => i = j

\* ---------------------------------------------------------------- REALPATH

\* Longest path a REALPATH is sent, in segments.
MaxReal == 3

\* Path::new of a string made by PathStr.
FromString(str) ==
    [abs |-> str # <<>> /\ str[1] = "/",
     segs |-> SelectSeq(IF str # <<>> /\ str[1] = "/" THEN Tail(str) ELSE str,
                        LAMBDA c : c # "/")]

\* SftpSession::realpath: the path made absolute against the cwd, as a
\* string in the one File::dummy of the answer.
SftpRealpath(raw) ==
    /\ Running
    /\ input' = raw
    /\ resp' = [Resp("realpath", "Name") EXCEPT
                   !.names = {PathStr(AbsolutizeFrom(Components(raw), cwd_path))}]
    /\ calls' = <<>>
    /\ UNCHANGED <<vfs_map, cwd_path, ssh_vars, other_vars, io_vars, version,
                   readdir_performed, backend_vars, fs_vars, output>>

InitRealpath ==
    /\ vfs_map \in PathTables
    /\ cwd_path = <<"/">>
    /\ input = <<>>
    /\ output = <<>>
    /\ Idle

NextRealpath == \E raw \in RawPathsUpTo(MaxReal) : SftpRealpath(raw)

SpecRealpath == InitRealpath /\ [][NextRealpath]_vars

\* The string a REALPATH answered.
Answer1(r) == CHOOSE str \in r.names : TRUE

\* C33: REALPATH answers one absolute path string with no "." and no
\* ".." in it, calls no backend and leaves the session and the backends
\* as they were; sent its own answer, it answers the same string.
C33_RealpathNormalizes ==
    [][\A raw \in RawPathsUpTo(MaxReal) :
          SftpRealpath(raw) =>
              /\ resp'.status = "Name"
              /\ Cardinality(resp'.names) = 1
              /\ Answer1(resp')[1] = "/"
              /\ \A i \in DOMAIN Answer1(resp') : Answer1(resp')[i] \notin {".", ".."}
              /\ \A i \in 1..(Len(Answer1(resp')) - 1) :
                    ~(Answer1(resp')[i] = "/" /\ Answer1(resp')[i + 1] = "/")
              /\ calls' = <<>>
              /\ UNCHANGED <<cwd_path, version, readdir_performed, backend_vars,
                             fs_vars, io_vars>>
              /\ (resp.op = "realpath" /\ raw = FromString(Answer1(resp)))
                 => resp' = resp]_vars

\* REALPATH of a/../.. answered /.
C33_Witness ==
    /\ input = [abs |-> FALSE, segs |-> <<"a", "..", "..">>]
    /\ resp.op = "realpath"
    /\ resp.names = {<<"/">>}

\* --------------------------------------------------------------- host keys

\* How many entries the host-key directory holds.
MaxEntries == 2

\* An entry of the directory: its name, and what it is: a private key in
\* OpenSSH form, UTF-8 text that is no key, bytes that are not UTF-8, or
\* a subdirectory.
EntryKinds == {"key", "garbage", "binary", "subdir"}
DirEntries == [file_name : {"id", "id.pub"}, kind : EntryKinds]

\* read_to_string(entry.open()?): reading a directory fails, and so does
\* reading bytes that are not UTF-8.
ReadsToString(entry) == entry.kind \in {"key", "garbage"}

\* The loop of get_host_keys from entry i on, with the keys pushed so
\* far: an error of open or read_to_string leaves the function through ?.
RECURSIVE HostKeysFrom(_, _, _)
HostKeysFrom(entries, i, keys) ==
    IF i > Len(entries) THEN [ok |-> TRUE, keys |-> keys]
    ELSE IF entries[i].file_name = "id.pub" THEN HostKeysFrom(entries, i + 1, keys)
    ELSE IF ~ReadsToString(entries[i]) THEN [ok |-> FALSE, keys |-> <<>>]
    ELSE IF entries[i].kind = "key" THEN HostKeysFrom(entries, i + 1, Append(keys, i))
    ELSE HostKeysFrom(entries, i + 1, keys)

\* get_host_keys over the entries in the order dir.entries() yields them;
\* a key is named by the place of its entry.
get_host_keys(entries) == HostKeysFrom(entries, 1, <<>>)

InitHostKeys ==
    /\ vfs_map = {TheRoot}
    /\ cwd_path = <<"/">>
    /\ input \in UNION {[1..n -> DirEntries] : n \in 0..MaxEntries}
    /\ output = <<>>
    /\ Idle

GetHostKeysCall ==
    /\ output = <<>>
    /\ output' = get_host_keys(input)
    /\ UNCHANGED <<vfs_map, cwd_path, input>>
    /\ Untouched

NextHostKeys == GetHostKeysCall

SpecHostKeys == InitHostKeys /\ [][NextHostKeys]_vars

\* C34: get_host_keys returns the keys of exactly the entries that are not
\* named *.pub and hold a private key, whatever else is in the directory.
C34_UnparseableSkipped ==
    output # <<>> =>
        /\ output.ok
        /\ {output.keys[k] : k \in DOMAIN output.keys}
             = {i \in DOMAIN input :
                   input[i].file_name # "id.pub" /\ input[i].kind = "key"}

\* ---------------------------------------------------------------- READLINK

\* The paths a READLINK is sent: the symlink, a file, and nothing.
LinkPaths ==
    {[abs |-> TRUE, segs |-> <<"l">>], [abs |-> TRUE, segs |-> <<"b">>],
     [abs |-> TRUE, segs |-> <<"x">>]}

\* A backend on the host directory RootPath that holds the file b and the
\* symlink l, whose content is any path.
InitLink ==
    /\ vfs_map = {TheRoot}
    /\ cwd_path = <<"/">>
    /\ version = NoVersion
    /\ readdir_performed = {}
    /\ resp = NoResp
    /\ calls = <<>>
    /\ open_files = [b \in vfs_map |-> <<>>]
    /\ open_dirs = [b \in vfs_map |-> <<>>]
    /\ salts = 0
    /\ issued = <<>>
    /\ closed = {}
    /\ files = [b \in vfs_map |-> {<<"b">>}]
    /\ dirs = [b \in vfs_map |-> {}]
    /\ \E c \in LinkContents : links = [b \in vfs_map |-> (<<"l">> :> c)]
    /\ contents = [b \in vfs_map |-> <<>>]
    /\ positions = [b \in vfs_map |-> <<>>]
    /\ in_flight = <<>>
    /\ promised = contents
    /\ writes = 0
    /\ NoAuth
    /\ NoChannels
    /\ NoLookup
    /\ NoOthers
    /\ input = <<>>
    /\ output = <<>>

NextLink == \E raw \in LinkPaths, order \in Orders(vfs_map) : SftpReadlink(raw, order)

SpecLink == InitLink /\ [][NextLink]_vars

\* The content of the symlink l.
LinkContent == links[TheRoot][<<"l">>]

\* C35: READLINK of a symlink whose content is absolute and starts with
\* the host root of the backend answers the content with the root taken
\* off; one whose content is absolute and does not start with the root is
\* answered Failure; one whose content is relative answers the content
\* unchanged.
C35_ReadlinkClassifies ==
    (resp.op = "readlink" /\ calls = <<Call(TheRoot, "readlink", <<<<"l">>>>)>>) =>
        IF IsAbsolute(LinkContent)
        THEN IF StartsWith(LinkContent, RootPath)
             THEN /\ resp.status = "Name"
                  /\ \A p \in resp.names : RootPath \o p = LinkContent
                  /\ resp.names = {} => LinkContent = RootPath
             ELSE resp.status = "Failure"
        ELSE /\ resp.status = "Name"
             /\ resp.names = {LinkContent} \ {<<>>}

\* READLINK of a symlink to /r/a, below the host root /r, answered a.
C35_Witness ==
    /\ resp.op = "readlink"
    /\ resp.status = "Name"
    /\ calls = <<Call(TheRoot, "readlink", <<<<"l">>>>)>>
    /\ LinkContent = <<"/", "r", "a">>
    /\ resp.names = {<<"a">>}

\* ------------------------------------------------------------------- CLOSE

\* Some backend has the handle in one of its tables.
Owned(h) == \E b \in vfs_map : OwnsHandle(b, h)

\* C36: a CLOSE of an open handle takes it out of the drained set and out
\* of its backend's table and is answered Ok; a CLOSE or READDIR on the
\* string of a handle that was closed finds no backend that owns it, is
\* answered NoSuchFile, calls no backend and leaves the tables and the
\* drained set alone.
C36_ClosedHandleIsGone ==
    [][\A hstr \in ClientHandles, order \in Orders(vfs_map) :
          LET m == HandleMatch(hstr, order) IN
          /\ (SftpClose(hstr, order) /\ m.kind = "fun")
             => /\ resp'.status = "Ok"
                /\ m.handle \notin readdir_performed'
                /\ \A b \in vfs_map :
                      /\ m.handle.vfs_handle \notin DOMAIN open_files'[b]
                      /\ m.handle.vfs_handle \notin DOMAIN open_dirs'[b]
                /\ m.handle \in closed'
          /\ ((SftpClose(hstr, order) \/ SftpReaddir(hstr, order))
                 /\ FromStr(hstr).kind = "ok" /\ FromStr(hstr).handle \in closed)
             => /\ m.kind = "NoSuchFile"
                /\ resp'.status = "NoSuchFile"
                /\ calls' = <<>>
                /\ UNCHANGED <<open_files, open_dirs, readdir_performed>>]_vars

\* The one directory handle given out was closed, and a second CLOSE on
\* its string was answered NoSuchFile.
C36_Witness ==
    /\ resp = Resp("close", "NoSuchFile")
    /\ \E i \in DOMAIN issued :
          /\ issued[i].handle.handle_ty = "Dir"
          /\ issued[i].handle \in closed
          /\ ~Owned(issued[i].handle)
    /\ readdir_performed = {}
    /\ Cardinality(closed) = 1
    /\ salts = 1

\* ------------------------------------------------------- submission order

\* C37: the requests of a session on one handle take effect in the order
\* they were submitted: a READ that follows a WRITE answered Ok on the
\* same handle returns the file as that WRITE left it, and a write runs
\* at the offset its own request sought, so that once no write waits the
\* file holds what the WRITEs answered Ok put there.
C37_SubmissionOrder ==
    [][/\ \A i \in Readable, offset \in Offsets, len \in Lens, order \in Orders(vfs_map) :
             LET b == issued[i].vfs
                 h == issued[i].handle
                 told == Promised(b, open_files[b][h.vfs_handle].path)
             IN (/\ resp.op = "write" /\ resp.status = "Ok"
                 /\ resp.handle = to_string(h)
                 /\ "WRITE" \in open_files[b][h.vfs_handle].flags
                 /\ offset < Len(told)
                 /\ SftpRead(to_string(h), offset, len, order))
                => /\ resp'.status = "Data"
                   /\ resp'.data = Range(told, offset, len)
       /\ \A k \in DOMAIN in_flight :
             (/\ BlockingWrite(k)
              /\ "WRITE" \in in_flight[k].file.flags
              /\ Len(in_flight) = 1
              /\ writes = 1)
                => contents'[in_flight[k].vfs][in_flight[k].file.path]
                     = Promised(in_flight[k].vfs, in_flight[k].file.path)]_vars

\* C38: whatever the configured modes, the file type of the permissions
\* file_attrs makes, the bits from bit 12 up, is 0o004 for a directory and
\* 0o010 for anything else.
C38_TypeBitsExact ==
    output # <<>> =>
        output.permissions.value \div 4096 = IF input.is_directory THEN 4 ELSE 8

\* ---------------------------------------------------------------- sessions

\* The SFTP sessions a run starts, in this order.
SessionIds == {1, 2}

\* The SftpSession at work, as it is kept while another one is at work; a
\* session whose handler panicked has ended.
Me == [version |-> version, readdir_performed |-> readdir_performed, ended |-> ~Running]

\* The sessions started so far are numbered from 1.
Started == Cardinality(DOMAIN parked) + 1
CanResume == {j \in DOMAIN parked : ~parked[j].ended}

\* Dropping an SftpSession with every handle it opened closed.
DropVfsSetClosing(tables, s) ==
    [b \in DOMAIN tables |->
        [k \in {x \in DOMAIN tables[b] :
                   \A i \in DOMAIN issued :
                      issued[i].handle.vfs_handle = x => issued[i].session # s}
           |-> tables[b][k]]]

\* Dropping an SftpSession drops its clone of the VfsSet: the backends are
\* behind an Arc the server's VfsSet holds too, nothing implements Drop,
\* and the tables of the backends stay as they are.
DropVfsSet(tables, s) == tables

\* SftpSession::new.
NewSftpSession ==
    /\ version' = NoVersion
    /\ readdir_performed' = {}
    /\ resp' = NoResp
    /\ calls' = <<>>

\* The requests of session j are served next.
Serve(j) ==
    /\ session' = j
    /\ version' = parked[j].version
    /\ readdir_performed' = parked[j].readdir_performed
    /\ resp' = NoResp
    /\ calls' = <<>>

SessionFrame ==
    UNCHANGED <<vfs_map, cwd_path, ssh_vars, inodes, io_vars, salts, issued, closed,
                fs_vars, input, output>>

\* SshSession::subsystem_request for "sftp" on another channel or another
\* connection: one more SftpSession over a clone of the VfsSet.
SubsystemStart ==
    /\ Started + 1 \in SessionIds
    /\ parked' = Insert(parked, session, Me)
    /\ session' = Started + 1
    /\ NewSftpSession
    /\ UNCHANGED <<open_files, open_dirs>>
    /\ SessionFrame

\* A request of another session arrives.
Resume(j) ==
    /\ j \in CanResume
    /\ parked' = Insert(Remove(parked, j), session, Me)
    /\ Serve(j)
    /\ UNCHANGED <<open_files, open_dirs>>
    /\ SessionFrame

\* The channel of the session at work is closed or its connection is
\* dropped: the SftpSession is dropped; another session goes on, or a new
\* one is started later.
SessionEnd(next) ==
    /\ parked' = Insert(Remove(parked, next), session, [Me EXCEPT !.ended = TRUE])
    /\ IF next \in CanResume THEN Serve(next)
       ELSE /\ next = Started + 1
            /\ Started + 1 \in SessionIds
            /\ session' = next
            /\ NewSftpSession
    /\ open_files' = DropVfsSet(open_files, session)
    /\ open_dirs' = DropVfsSet(open_dirs, session)
    /\ SessionFrame

\* LocalDir::stat_fd: get_file or get_dir, then the metadata of the open
\* file or directory, which the host gives whatever has become of the path.
StatFd(b, h) ==
    IF h.handle_ty = "File"
    THEN h.vfs_handle \in DOMAIN open_files[b]
    ELSE h.vfs_handle \in DOMAIN open_dirs[b]

\* SftpSession::fstat with LocalDir::stat_fd.
SftpFstat(hstr, order) ==
    /\ Running
    /\ LET m == HandleMatch(hstr, order) IN
       IF m.kind = "fun"
       THEN /\ calls' = <<Call(m.vfs, "stat_fd", <<m.handle.vfs_handle>>)>>
            /\ resp' = [Resp("fstat", IF StatFd(m.vfs, m.handle) THEN "Attrs" ELSE "Failure")
                           EXCEPT !.handle = to_string(m.handle)]
       ELSE /\ resp' = Resp("fstat", m.kind)
            /\ calls' = <<>>
    /\ UNCHANGED <<vfs_map, cwd_path, ssh_vars, other_vars, io_vars, version,
                   readdir_performed, backend_vars, fs_vars, input, output>>

\* A backend on a directory that holds the file b and the directory a with
\* the file a/b.
SessionTree == [files |-> {<<"b">>, <<"a", "b">>}, dirs |-> {<<"a">>}, links |-> <<>>]

InitSessions ==
    /\ vfs_map = {TheRoot}
    /\ cwd_path = <<"/">>
    /\ version = NoVersion
    /\ readdir_performed = {}
    /\ resp = NoResp
    /\ calls = <<>>
    /\ open_files = [b \in vfs_map |-> <<>>]
    /\ open_dirs = [b \in vfs_map |-> <<>>]
    /\ salts = 0
    /\ issued = <<>>
    /\ closed = {}
    /\ files = [b \in vfs_map |-> SessionTree.files]
    /\ dirs = [b \in vfs_map |-> SessionTree.dirs]
    /\ links = [b \in vfs_map |-> SessionTree.links]
    /\ contents = [b \in vfs_map |-> (<<"b">> :> <<1, 2>>) @@ (<<"a", "b">> :> <<>>)]
    /\ positions = [b \in vfs_map |-> <<>>]
    /\ in_flight = <<>>
    /\ promised = contents
    /\ writes = 0
    /\ NoAuth
    /\ NoChannels
    /\ NoLookup
    /\ NoOthers
    /\ input = <<>>
    /\ output = <<>>

\* The sessions of a run open two handles between them: the first and the
\* second handle the backend makes.
SessionOpens == {1, 2}
MayOpen == salts + 1 \in SessionOpens

NextSessions ==
    \/ \E order \in Orders(vfs_map) :
          /\ MayOpen
          /\ SftpOpen([abs |-> TRUE, segs |-> <<"b">>], {"READ", "WRITE"}, order)
    \/ \E order \in Orders(vfs_map) :
          /\ MayOpen
          /\ SftpOpenDir([abs |-> TRUE, segs |-> <<"a">>], order)
    \/ \E hstr \in FileClientHandles, order \in Orders(vfs_map) : SftpClose(hstr, order)
    \/ \E hstr \in FileClientHandles, order \in Orders(vfs_map) : SftpReaddir(hstr, order)
    \/ \E hstr \in FileClientHandles, order \in Orders(vfs_map) : SftpRead(hstr, 0, 64, order)
    \/ \E hstr \in FileClientHandles, order \in Orders(vfs_map) :
          SftpWrite(hstr, 0, <<1>>, order)
    \/ \E i \in DOMAIN in_flight : BlockingWrite(i)
    \/ \E hstr \in FileClientHandles, order \in Orders(vfs_map) : SftpFstat(hstr, order)
    \/ SubsystemStart
    \/ \E j \in DOMAIN parked : Resume(j)
    \/ \E next \in SessionIds : SessionEnd(next)

SpecSessions == InitSessions /\ [][NextSessions]_vars

\* The session s has ended.
Ended(s) == s \in DOMAIN parked /\ parked[s].ended

\* The handles an ended session opened and nobody closed.
LeftOpen == {i \in DOMAIN issued : Ended(issued[i].session) /\ issued[i].handle \notin closed}

\* The keys a step takes out of the tables of backend b.
Released(b) ==
    (DOMAIN open_files[b] \ DOMAIN open_files'[b])
        \cup (DOMAIN open_dirs[b] \ DOMAIN open_dirs'[b])

\* C39: the step in which a session ends, starts or hands over leaves the
\* tables of the backends as they are; the handles an ended session opened
\* and nobody closed stay owned by their backend; and a table loses a key
\* only in a CLOSE that is answered Ok.
C39_ReleasedOnlyByClose ==
    [][/\ session' # session => UNCHANGED <<open_files, open_dirs>>
       /\ \A i \in LeftOpen : Owned(issued[i].handle)
       /\ \A i \in LeftOpen' : Owned(issued[i].handle)'
       /\ \A b \in vfs_map : Released(b) # {} => resp' = Resp("close", "Ok")]_vars

\* Session 1 opened a file and a directory and ended without closing them;
\* session 2 is at work and both handles are still owned by the backend.
C39_Witness ==
    /\ session = 2
    /\ Ended(1)
    /\ closed = {}
    /\ \E i, j \in LeftOpen :
          /\ issued[i].session = 1
          /\ issued[j].session = 1
          /\ issued[i].handle.handle_ty = "File"
          /\ issued[j].handle.handle_ty = "Dir"
          /\ Owned(issued[i].handle)
          /\ Owned(issued[j].handle)

\* The open handles another session than the one at work opened.
Foreign == {i \in DOMAIN issued : issued[i].session # session /\ issued[i].handle \notin closed}

\* The session s listed the directory handle h and is not at work.
DrainedBy(s, h) == s \in DOMAIN parked /\ h \in parked[s].readdir_performed

\* C40: a session that sends the string of an open handle another session
\* opened is served as the opener would be: READ of a file handle answers the
\* file's data, WRITE is accepted and queued, FSTAT answers Attrs, CLOSE
\* answers Ok and takes the handle out of the backend's table, and the first
\* READDIR of this session on a directory handle answers the full listing,
\* whether or not the opener has listed it already.
C40_HandlesNotBoundToSession ==
    [][\A i \in Foreign, order \in Orders(vfs_map) :
          LET h == issued[i].handle
              hstr == to_string(h)
              b == issued[i].vfs
          IN
          /\ (SftpRead(hstr, 0, 64, order) /\ h.handle_ty = "File")
             => /\ resp'.status = "Data"
                /\ resp'.data = Content(b, open_files[b][h.vfs_handle].path)
          /\ (SftpWrite(hstr, 0, <<1>>, order) /\ h.handle_ty = "File")
             => /\ resp'.status = "Ok"
                /\ Len(in_flight') = Len(in_flight) + 1
          /\ SftpFstat(hstr, order) => resp'.status = "Attrs"
          /\ SftpClose(hstr, order)
             => /\ resp'.status = "Ok"
                /\ ~OwnsHandle(b, h)'
          /\ (SftpReaddir(hstr, order) /\ h.handle_ty = "Dir" /\ h \notin readdir_performed)
             => /\ resp'.status = "Name"
                /\ resp'.names = ReadDir(b, h).names
                /\ resp'.names # {}]_vars

\* Session 1 opened a directory and listed it; session 2 sent the same
\* handle string in its first READDIR and was answered the listing again.
C40_Witness ==
    /\ session = 2
    /\ resp.op = "readdir"
    /\ resp.status = "Name"
    /\ \E i \in Foreign :
          /\ issued[i].session = 1
          /\ resp.handle = to_string(issued[i].handle)
          /\ DrainedBy(1, issued[i].handle)
          /\ issued[i].handle \in readdir_performed

====
